---- MODULE Spec2Model ----
(***************************************************************************)
(* Verification model of the recognition-and-normalisation kernel of the   *)
(* port data-donation scripts:                                             *)
(*   - port/validate.py      ValidateInput (fingerprint classification)    *)
(*   - port/instagram.py, port/facebook.py, port/twitter.py   validate     *)
(*   - port/helpers.py       dict_denester                                 *)
(*   - port/script.py        process (the donation flow) with the          *)
(*                           validate_zip functions of port/ddpinspect     *)
(*                                                                         *)
(* Conventions.                                                            *)
(*   Optional[T] is a sequence of length 0 (None) or 1 (the value).        *)
(*   A Python list is a sequence.  A Python dict is the sequence of its    *)
(*   <<key, value>> items in insertion order (keys pairwise distinct).     *)
(*   A score  sum / len * 100  is kept as the exact fraction               *)
(*   <<sum * 100, len>> and compared by cross-multiplication; for the      *)
(*   list sizes that occur the IEEE doubles computed by Python order       *)
(*   exactly as these fractions do.                                        *)
(*   The dataclass defaults of ValidateInput are accepted by the Python    *)
(*   versions that predate the unhashable-default check (< 3.11); the      *)
(*   model describes the module as loaded by such an interpreter.          *)
(***************************************************************************)
EXTENDS Integers, Sequences, FiniteSets, TLC

VARIABLES
    validation,       \* Optional[ValidateInput]: the object under consideration
    call_files,       \* file_list_input of the last infer_ddp_category call
    call_props,       \* the dict prop_category built by that call
    call_ret,         \* its outcome: "none" | "True" | "False" | "ZeroDivisionError"
    platform,         \* the platform module whose validate was called
    zfile,            \* the archive handed to validate
    pc,               \* position of the caller of validate
    inp,              \* the JSON tree handed to dict_denester
    new,              \* the denested dict it returned
    dpc,              \* position of the caller of dict_denester
    json_items,       \* the list flatten_nested_dict returned
    fpc,              \* position of the caller of flatten_nested_dict
    token,            \* key_to_match of the last find_items / find_all call
    found,            \* what that call returned
    qpc,              \* position of the caller of find_items / find_all
    t_call,           \* the function called on its own, "idle" before the call
    t_args,           \* its arguments
    t_ret,            \* its outcome
    scan_new,         \* the denested dict scanfiles.dict_denester returned
    spc,              \* position of the caller of scanfiles.dict_denester
    item_no,          \* how many items the caller has handed to the denesters
    heap,             \* the objects two concurrent validate calls share
    threads,          \* the two calls: position, archive and local objects of each
    gen,              \* the frame of the generator process(sessionId)
    ui                \* what the caller of the generator has seen and answered

vVars == <<validation, call_files, call_props, call_ret, platform, zfile, pc>>

dVars == <<inp, new, dpc>>

fVars == <<json_items, fpc>>

qVars == <<token, found, qpc>>

tVars == <<t_call, t_args, t_ret>>

\* the variables of the flattening, lookup and timestamp operations
xVars == <<json_items, fpc, token, found, qpc, t_call, t_args, t_ret>>

\* the variables of the second denester
sVars == <<scan_new, spc, item_no>>

\* the variables of the operations modelled after the timestamp functions
wVars == <<scan_new, spc, item_no, heap, threads, gen, ui>>

\* the variables of the donation flow
pVars == <<gen, ui>>

vars == <<validation, call_files, call_props, call_ret, platform, zfile, pc, inp, new, dpc,
          json_items, fpc, token, found, qpc, t_call, t_args, t_ret, scan_new, spc, item_no,
          heap, threads, gen, ui>>

----------------------------------------------------------------------------
(* Bounds *)

MaxListing == 3        \* longest entry-name listing passed to infer_ddp_category
MaxEntries == 4        \* most entries in an archive handed to validate
MaxNodes == 4          \* most nodes (objects, arrays, scalars) of a JSON tree
MaxFlatNodes == 3      \* most nodes of a JSON tree handed to flatten_nested_dict
MaxFindNodes == 3      \* most nodes of a JSON tree denested for find_items
MaxSample == 3         \* longest list handed to is_epoch and is_isoformat
MaxTwinNodes == 3      \* most nodes of a JSON tree handed to both denesters
MaxItems == 2          \* most items a caller hands to the denesters in a row
MaxZipEntries == 3     \* most entries of an archive handed to extract_file_from_zip
MaxRows == 4           \* most rows of a table handed to split_dataframe
MaxSharedEntries == 2  \* most entries of an archive of two concurrent validate calls
MaxUploads == 2        \* most files a user submits for one platform

----------------------------------------------------------------------------
(* Generic helpers: Optional values, lists, insertion-ordered dicts *)

None == <<>>

Some(x) == <<x>>

Range(s) == {s[i] : i \in DOMAIN s}

SeqsUpTo(S, n) == UNION {[1..k -> S] : k \in 0..n}

\* Python:  x in lst
InList(x, lst) == \E i \in DOMAIN lst : lst[i] = x

\* Python:  key in d
DictHas(d, k) == \E i \in DOMAIN d : d[i][1] = k

\* Python:  d[key]   (KeyError is not modelled: callers only look up present keys)
DictGet(d, k) == d[CHOOSE i \in DOMAIN d : d[i][1] = k][2]

\* Python:  d[key] = value   (an existing key keeps its position)
DictSet(d, k, v) ==
    IF DictHas(d, k)
    THEN [i \in DOMAIN d |-> IF d[i][1] = k THEN <<k, v>> ELSE d[i]]
    ELSE Append(d, <<k, v>>)

----------------------------------------------------------------------------
(* port/validate.py: data classes *)

DDPCategory(id, ddp_filetype, language, known_files) ==
    [id |-> Some(id), ddp_filetype |-> Some(ddp_filetype),
     language |-> Some(language), known_files |-> Some(known_files)]

\* DDPCategory(): every field None
DefaultCategory ==
    [id |-> None, ddp_filetype |-> None, language |-> None, known_files |-> None]

StatusCode(id, description, message) ==
    [id |-> id, description |-> description, message |-> message]

\* the default of ValidateInput.status_code
NotValidated == StatusCode(-1, "DDP not validated", "")

----------------------------------------------------------------------------
(* The registries (DDP_CATEGORIES) and status codes (STATUS_CODES) of the   *)
(* platform modules, copied from the source.                                *)

\* port/instagram.py, lines 32-72
Instagram_DDP_CATEGORIES ==
    <<
        DDPCategory("json_en", "JSON", "EN", <<
            "secret_conversations.json",
            "personal_information.json",
            "account_privacy_changes.json",
            "account_based_in.json",
            "recently_deleted_content.json",
            "liked_posts.json",
            "stories.json",
            "profile_photos.json",
            "followers.json",
            "signup_information.json",
            "comments_allowed_from.json",
            "login_activity.json",
            "your_topics.json",
            "camera_information.json",
            "recent_follow_requests.json",
            "devices.json",
            "professional_information.json",
            "follow_requests_you've_received.json",
            "eligibility.json",
            "pending_follow_requests.json",
            "videos_watched.json",
            "ads_interests.json",
            "account_searches.json",
            "following.json",
            "posts_viewed.json",
            "recently_unfollowed_accounts.json",
            "post_comments.json",
            "account_information.json",
            "accounts_you're_not_interested_in.json",
            "use_cross-app_messaging.json",
            "profile_changes.json",
            "reels.json"
        >>)
    >>

\* port/instagram.py, lines 74-78
Instagram_STATUS_CODES ==
    <<
        StatusCode(0, "Valid DDP", "Valid DDP"),
        StatusCode(1, "Not a valid DDP", "Not a valid DDP"),
        StatusCode(2, "Bad zipfile", "Bad zip")
    >>

\* port/facebook.py, lines 27-97
Facebook_DDP_CATEGORIES ==
    <<
        DDPCategory("json_en", "JSON", "EN", <<
            "events_interactions.json",
            "group_interactions.json",
            "people_and_friends.json",
            "advertisers_using_your_activity_or_information.json",
            "advertisers_you've_interacted_with.json",
            "apps_and_websites.json",
            "your_off-facebook_activity.json",
            "comments.json",
            "posts_and_comments.json",
            "event_invitations.json",
            "your_event_responses.json",
            "accounts_center.json",
            "marketplace_notifications.json",
            "payment_history.json",
            "controls.json",
            "reduce.json",
            "friend_requests_received.json",
            "friend_requests_sent.json",
            "friends.json",
            "rejected_friend_requests.json",
            "removed_friends.json",
            "who_you_follow.json",
            "your_comments_in_groups.json",
            "your_group_membership_activity.json",
            "your_posts_in_groups.json",
            "primary_location.json",
            "primary_public_location.json",
            "timezone.json",
            "notifications.json",
            "pokes.json",
            "ads_interests.json",
            "friend_peer_group.json",
            "pages_and_profiles_you_follow.json",
            "pages_and_profiles_you've_recommended.json",
            "pages_and_profiles_you've_unfollowed.json",
            "pages_you've_liked.json",
            "polls_you_voted_on.json",
            "your_uncategorized_photos.json",
            "your_videos.json",
            "language_and_locale.json",
            "live_video_subscriptions.json",
            "profile_information.json",
            "profile_update_history.json",
            "your_local_lists.json",
            "your_saved_items.json",
            "your_search_history.json",
            "account_activity.json",
            "authorized_logins.json",
            "browser_cookies.json",
            "email_address_verifications.json",
            "ip_address_activity.json",
            "login_protection_data.json",
            "logins_and_logouts.json",
            "mobile_devices.json",
            "record_details.json",
            "where_you're_logged_in.json",
            "your_facebook_activity_history.json",
            "archived_stories.json",
            "location.json",
            "recently_viewed.json",
            "recently_visited.json",
            "your_topics.json"
        >>)
    >>

\* port/facebook.py, lines 99-103
Facebook_STATUS_CODES ==
    <<
        StatusCode(0, "Valid DDP", ""),
        StatusCode(1, "Not a valid DDP", ""),
        StatusCode(2, "Bad zipfile", "")
    >>

\* port/twitter.py, lines 31-112
Twitter_DDP_CATEGORIES ==
    <<
        DDPCategory("js_en", "JSON", "EN", <<
            "manifest.js",
            "account-creation-ip.js",
            "account-label.js",
            "account-suspension.js",
            "account-timezone.js",
            "account.js",
            "ad-engagements.js",
            "ad-free-article-visits.js",
            "ad-impressions.js",
            "ad-mobile-conversions-attributed.js",
            "ad-mobile-conversions-unattributed.js",
            "ad-online-conversions-attributed.js",
            "ad-online-conversions-unattributed.js",
            "ageinfo.js",
            "app.js",
            "birdwatch-note-rating.js",
            "birdwatch-note-tombstone.js",
            "birdwatch-note.js",
            "block.js",
            "branch-links.js",
            "catalog-item.js",
            "commerce-catalog.js",
            "community-tweet.js",
            "connected-application.js",
            "contact.js",
            "deleted-tweet.js",
            "device-token.js",
            "direct-message-group-headers.js",
            "direct-message-headers.js",
            "direct-message-mute.js",
            "direct-messages-group.js",
            "direct-messages.js",
            "email-address-change.js",
            "follower.js",
            "following.js",
            "ip-audit.js",
            "like.js",
            "lists-created.js",
            "lists-member.js",
            "lists-subscribed.js",
            "moment.js",
            "mute.js",
            "ni-devices.js",
            "periscope-account-information.js",
            "periscope-ban-information.js",
            "periscope-broadcast-metadata.js",
            "periscope-comments-made-by-user.js",
            "periscope-expired-broadcasts.js",
            "periscope-followers.js",
            "periscope-profile-description.js",
            "personalization.js",
            "phone-number.js",
            "product-drop.js",
            "product-set.js",
            "professional-data.js",
            "profile.js",
            "protected-history.js",
            "reply-prompt.js",
            "saved-search.js",
            "screen-name-change.js",
            "shop-module.js",
            "shopify-account.js",
            "smartblock.js",
            "spaces-metadata.js",
            "sso.js",
            "tweets.js",
            "tweetdeck.js",
            "twitter-circle-member.js",
            "twitter-circle-tweet.js",
            "twitter-circle.js",
            "twitter-shop.js",
            "user-link-clicks.js",
            "verified.js"
        >>)
    >>

\* port/twitter.py, lines 114-118
Twitter_STATUS_CODES ==
    <<
        StatusCode(0, "Valid DDP", ""),
        StatusCode(1, "Not valid DDP", ""),
        StatusCode(2, "Bad zipfile", "")
    >>

\* port/ddpinspect/youtube.py, lines 32-79
YouTube_DDP_CATEGORIES ==
    <<
        DDPCategory("json_en", "JSON", "EN", <<
            "archive_browser.html",
            "watch-history.json",
            "my-comments.html",
            "my-live-chat-messages.html",
            "subscriptions.csv"
        >>),
        DDPCategory("html_en", "HTML", "EN", <<
            "archive_browser.html",
            "watch-history.html",
            "my-comments.html",
            "my-live-chat-messages.html",
            "subscriptions.csv"
        >>),
        DDPCategory("json_nl", "JSON", "NL", <<
            "archive_browser.html",
            "kijkgeschiedenis.json",
            "mijn-reacties.html",
            "abonnementen.csv"
        >>),
        DDPCategory("html_nl", "HTML", "NL", <<
            "archive_browser.html",
            "kijkgeschiedenis.html",
            "mijn-reacties.html",
            "abonnementen.csv"
        >>)
    >>

\* port/ddpinspect/youtube.py, lines 81-84
YouTube_STATUS_CODES ==
    <<
        StatusCode(0, "Valid zip", "Valid zip"),
        StatusCode(1, "Bad zipfile", "Bad zipfile")
    >>


----------------------------------------------------------------------------
(* port/validate.py: ValidateInput *)

RECURSIVE lookup_by_id(_, _)
\* {item.id: item for item in items}
lookup_by_id(items, d) ==
    IF items = <<>> THEN d
    ELSE lookup_by_id(Tail(items), DictSet(d, Head(items).id, Head(items)))

\* ValidateInput(status_codes, ddp_categories) followed by __post_init__
ValidateInput(status_codes, ddp_categories) ==
    [status_codes          |-> status_codes,
     ddp_categories        |-> ddp_categories,
     status_code           |-> NotValidated,
     ddp_category          |-> DefaultCategory,
     ddp_categories_lookup |-> lookup_by_id(ddp_categories, <<>>),
     status_codes_lookup   |-> lookup_by_id(status_codes, <<>>)]

\* self.status_code = self.status_codes_lookup[id]
set_status_code(self, id) ==
    [self EXCEPT !.status_code = DictGet(self.status_codes_lookup, id)]

\* self.ddp_category = self.ddp_categories_lookup[id]
set_ddp_category(self, id) ==
    [self EXCEPT !.ddp_category = DictGet(self.ddp_categories_lookup, id)]

RECURSIVE n_files_found_until_miss(_, _)
\* n_files_found with the count cut short at the first unknown name
n_files_found_until_miss(file_list_input, known_files) ==
    IF file_list_input = <<>> THEN 0
    ELSE IF InList(Head(file_list_input), known_files)
         THEN 1 + n_files_found_until_miss(Tail(file_list_input), known_files)
         ELSE 0

RECURSIVE n_files_found(_, _)
\* sum([1 if f in known_files else 0 for f in file_list_input])
n_files_found(file_list_input, known_files) ==
    IF file_list_input = <<>> THEN 0
    ELSE (IF InList(Head(file_list_input), known_files) THEN 1 ELSE 0)
         + n_files_found(Tail(file_list_input), known_files)

\* sum(n_files_found) / len(category.known_files) * 100, as an exact fraction
proportion(file_list_input, known_files) ==
    <<n_files_found(file_list_input, known_files) * 100, Len(known_files)>>

\* a < b on fractions with positive denominators
ScoreLess(a, b) == a[1] * b[2] < b[1] * a[2]

\* AtLeast5 with the division by len(known_files) forgotten
AtLeast5_undivided(score) == score[1] >= 5

\* AtLeast5 with an exclusive threshold
AtLeast5_strict(score) == score[1] > 5 * score[2]

\* score >= 5
AtLeast5(score) == score[1] >= 5 * score[2]

RECURSIVE score_categories(_, _, _)
\* the for loop of infer_ddp_category over ddp_categories_lookup.items();
\* the division raises ZeroDivisionError for an empty known_files list
score_categories(items, file_list_input, prop) ==
    IF items = <<>> THEN [raised |-> FALSE, prop_category |-> prop]
    ELSE LET identifier == Head(items)[1]
             category   == Head(items)[2]
         IN  IF Len(category.known_files[1]) = 0
             THEN [raised |-> TRUE, prop_category |-> prop]
             ELSE score_categories(
                      Tail(items), file_list_input,
                      DictSet(prop, identifier,
                              proportion(file_list_input, category.known_files[1])))

RECURSIVE py_max_last_wins(_, _, _)
\* py_max with the candidate replaced on a tie as well
py_max_last_wins(d, i, best) ==
    IF i > Len(d) THEN best
    ELSE py_max_last_wins(d, i + 1, IF ScoreLess(d[i][2], d[best][2]) THEN best ELSE i)

RECURSIVE py_max(_, _, _)
\* max(prop_category, key=prop_category.get): the index of the first item
\* whose value no later item exceeds (max keeps its candidate unless a later
\* item compares strictly greater)
py_max(d, i, best) ==
    IF i > Len(d) THEN best
    ELSE py_max(d, i + 1, IF ScoreLess(d[best][2], d[i][2]) THEN i ELSE best)

\* ValidateInput.infer_ddp_category: the object after the call, the dict
\* prop_category it built, and how the call ended
infer_ddp_category(self, file_list_input) ==
    LET scored  == score_categories(self.ddp_categories_lookup, file_list_input, <<>>)
        prop    == scored.prop_category
        highest == prop[py_max(prop, 2, 1)]
    IN  IF scored.raised
        THEN [self |-> self, prop_category |-> prop, ret |-> "ZeroDivisionError"]
        ELSE IF AtLeast5(highest[2])
        THEN [self |-> [self EXCEPT !.ddp_category =
                            DictGet(self.ddp_categories_lookup, highest[1])],
              prop_category |-> prop, ret |-> "True"]
        ELSE [self |-> self, prop_category |-> prop, ret |-> "False"]

----------------------------------------------------------------------------
(* validate of port/instagram.py, port/facebook.py and port/twitter.py.     *)
(* An archive is  [kind, namelist]:  kind "zip" for a readable archive,     *)
(* "BadZipFile" when zipfile.ZipFile raises BadZipFile, "OSError" when it   *)
(* raises anything else (missing file, directory, ...).  An entry of        *)
(* namelist is kept as the two parts pathlib derives from it,               *)
(* [name |-> Path(f).name, suffix |-> Path(f).suffix]; two entries with     *)
(* the same name are files of different directories.                        *)

RECURSIVE collect_paths(_, _)
\* the loop  for f in zf.namelist(): if p.suffix in <selected>: paths.append(p.name)
collect_paths(namelist, selected) ==
    IF namelist = <<>> THEN <<>>
    ELSE (IF Head(namelist).suffix \in selected THEN <<Head(namelist).name>> ELSE <<>>)
         \o collect_paths(Tail(namelist), selected)

\* the suffixes s with  s in (".html", ".json")
html_or_json == {".html", ".json"}

\* the suffixes s with  s in (".js"): the parentheses build no tuple, so
\* this is the substring test  s in ".js"
in_dot_js == {"", ".", ".j", ".js", "j", "js", "s"}

\* validate_body with the status set to 0 before the category is inferred and
\* never revisited
validate_body_status_first(status_codes, ddp_categories, selected, zf) ==
    LET fresh    == ValidateInput(status_codes, ddp_categories)
        paths    == collect_paths(zf.namelist, selected)
        inferred == infer_ddp_category(set_status_code(fresh, 0), paths)
    IN  IF zf.kind = "BadZipFile"
        THEN [outcome |-> "returned", validation |-> set_status_code(fresh, 2),
              paths |-> <<>>, prop_category |-> <<>>, ret |-> "none"]
        ELSE IF zf.kind = "OSError"
        THEN [outcome |-> "raised", validation |-> fresh,
              paths |-> <<>>, prop_category |-> <<>>, ret |-> "none"]
        ELSE [outcome |-> "returned", validation |-> inferred.self,
              paths |-> paths, prop_category |-> inferred.prop_category,
              ret |-> inferred.ret]

\* the body shared, statement for statement, by the three validate functions
validate_body(status_codes, ddp_categories, selected, zf) ==
    LET fresh    == ValidateInput(status_codes, ddp_categories)
        paths    == collect_paths(zf.namelist, selected)
        inferred == infer_ddp_category(fresh, paths)
    IN  IF zf.kind = "BadZipFile"
        THEN [outcome |-> "returned", validation |-> set_status_code(fresh, 2),
              paths |-> <<>>, prop_category |-> <<>>, ret |-> "none"]
        ELSE IF zf.kind = "OSError"
        THEN [outcome |-> "raised", validation |-> fresh,
              paths |-> <<>>, prop_category |-> <<>>, ret |-> "none"]
        ELSE IF inferred.ret = "ZeroDivisionError"
        THEN [outcome |-> "raised", validation |-> fresh,
              paths |-> paths, prop_category |-> inferred.prop_category,
              ret |-> inferred.ret]
        ELSE [outcome |-> "returned",
              validation |->
                  IF inferred.self.ddp_category.id # None
                  THEN set_status_code(inferred.self, 0)
                  ELSE set_status_code(inferred.self, 1),
              paths |-> paths, prop_category |-> inferred.prop_category,
              ret |-> inferred.ret]

Instagram_validate(zf) ==
    validate_body(Instagram_STATUS_CODES, Instagram_DDP_CATEGORIES, html_or_json, zf)

Facebook_validate(zf) ==
    validate_body(Facebook_STATUS_CODES, Facebook_DDP_CATEGORIES, html_or_json, zf)

Twitter_validate(zf) ==
    validate_body(Twitter_STATUS_CODES, Twitter_DDP_CATEGORIES, in_dot_js, zf)

----------------------------------------------------------------------------
(* Two validate calls of port/instagram.py at once.                         *)
(* The heap holds the objects the calls share: the module-level lists       *)
(* STATUS_CODES and DDP_CATEGORIES and the two default objects of the       *)
(* dataclass, made once when the class is defined.  A ValidateInput holds   *)
(* references: status_code and ddp_category are None for the default        *)
(* object and else the id of the registry object.  A call is [pc, zf,       *)
(* validation, paths, prop_category] and moves statement by statement.      *)

\* the objects as they are when the module has been imported
ModuleHeap ==
    [STATUS_CODES |-> Instagram_STATUS_CODES, DDP_CATEGORIES |-> Instagram_DDP_CATEGORIES,
     default_status_code |-> NotValidated, default_ddp_category |-> DefaultCategory]

\* validation.ddp_category, the object referred to
ddp_category_of(h, self) ==
    IF self.ddp_category = None THEN h.default_ddp_category
    ELSE DictGet(lookup_by_id(h.DDP_CATEGORIES, <<>>), self.ddp_category[1])

\* validation.status_code, the object referred to
status_code_of(h, self) ==
    IF self.status_code = None THEN h.default_status_code
    ELSE DictGet(lookup_by_id(h.STATUS_CODES, <<>>), self.status_code[1])

\* an assignment that writes the fields of the category found into the
\* object self.ddp_category refers to
assign_ddp_category_in_place(h, self, highest) ==
    IF self.ddp_category = None
    THEN [heap |-> [h EXCEPT !.default_ddp_category =
                        DictGet(lookup_by_id(h.DDP_CATEGORIES, <<>>), highest)],
          validation |-> self]
    ELSE [heap |-> h, validation |-> self]

\* self.ddp_category = self.ddp_categories_lookup[highest]: the attribute
\* of this object refers to the registry object from now on
assign_ddp_category(h, self, highest) ==
    [heap |-> h, validation |-> [self EXCEPT !.ddp_category = Some(highest)]]

\* validation = ValidateInput(STATUS_CODES, DDP_CATEGORIES)
ConstructStep(call) ==
    [call EXCEPT !.pc = "constructed",
                 !.validation = [status_code |-> None, ddp_category |-> None]]

\* the with statement: the listing of the archive, filtered by suffix
ListStep(call) ==
    IF call.zf.kind = "BadZipFile" THEN [call EXCEPT !.pc = "BadZipFile"]
    ELSE IF call.zf.kind = "OSError" THEN [call EXCEPT !.pc = "raised"]
    ELSE [call EXCEPT !.pc = "listed",
                      !.paths = collect_paths(call.zf.namelist, html_or_json)]

\* infer_ddp_category, the loop that fills prop_category
ScoreStep(h, call) ==
    LET scored == score_categories(lookup_by_id(h.DDP_CATEGORIES, <<>>), call.paths, <<>>)
    IN  IF scored.raised THEN [call EXCEPT !.pc = "raised"]
        ELSE [call EXCEPT !.pc = "scored", !.prop_category = scored.prop_category]

\* infer_ddp_category, from  if max(prop_category.values()) >= 5  on: the
\* heap and the call afterwards
InferStep(h, call) ==
    LET prop    == call.prop_category
        highest == prop[py_max(prop, 2, 1)]
        after   == assign_ddp_category(h, call.validation, highest[1])
    IN  IF AtLeast5(highest[2])
        THEN [heap |-> after.heap,
              call |-> [call EXCEPT !.pc = "inferred", !.validation = after.validation]]
        ELSE [heap |-> h, call |-> [call EXCEPT !.pc = "inferred"]]

\* if validation.ddp_category.id is not None: set_status_code(0), else
\* set_status_code(1); return validation
StatusStep(h, call) ==
    [call EXCEPT !.pc = "returned",
                 !.validation.status_code =
                     IF ddp_category_of(h, call.validation).id # None
                     THEN Some(0) ELSE Some(1)]

\* except zipfile.BadZipFile: validation.set_status_code(2); return validation
BadZipFileStep(call) ==
    [call EXCEPT !.pc = "returned", !.validation.status_code = Some(2)]

----------------------------------------------------------------------------
(* port/helpers.py: dict_denester.                                          *)
(* A string is the sequence of its characters.  A JSON node is a record     *)
(* [kind, members, value]: kind "dict" with members the <<key, node>> pairs *)
(* in insertion order, kind "list" with members the element nodes, kind     *)
(* "leaf" with value the scalar <<type, text>>.                             *)

NoValue == <<"none", "">>

Leaf(value) == [kind |-> "leaf", members |-> <<>>, value |-> value]

DictNode(items) == [kind |-> "dict", members |-> items, value |-> NoValue]

ListNode(items) == [kind |-> "list", members |-> items, value |-> NoValue]

NoTree == Leaf(NoValue)

Digits == <<"0", "1", "2", "3", "4", "5", "6", "7", "8", "9">>

RECURSIVE str_int(_)
\* str(i) for an index i >= 0
str_int(i) ==
    IF i < 10 THEN <<Digits[i + 1]>>
    ELSE str_int(i \div 10) \o <<Digits[(i % 10) + 1]>>

\* s[1:]
slice_from_1(s) == IF s = <<>> THEN <<>> ELSE Tail(s)

\* the separator of f"{name}-{k}"
Separator == "-"

\* f"{name}-{k}"
extend_name(name, k) == name \o <<Separator>> \o k

RECURSIVE dict_denester_into(_, _, _)
RECURSIVE denest_dict_items(_, _, _)
RECURSIVE denest_list_items(_, _, _, _)

\* the loop  for k, v in inp.items()
denest_dict_items(items, acc, name) ==
    IF items = <<>> THEN acc
    ELSE LET k == Head(items)[1]
             v == Head(items)[2]
         IN  denest_dict_items(
                 Tail(items),
                 IF v.kind \in {"dict", "list"}
                 THEN dict_denester_into(v, acc, extend_name(name, k))
                 ELSE DictSet(acc, slice_from_1(extend_name(name, k)), v.value),
                 name)

\* the loop  for i, item in enumerate(inp)
denest_list_items(items, i, acc, name) ==
    IF items = <<>> THEN acc
    ELSE denest_list_items(
             Tail(items), i + 1,
             dict_denester_into(Head(items), acc, extend_name(name, str_int(i))),
             name)

\* dict_denester(inp, new, name, run_first=False): the recursive calls, which
\* all update the one dict  new
dict_denester_into(node, acc, name) ==
    IF node.kind = "dict" THEN denest_dict_items(node.members, acc, name)
    ELSE IF node.kind = "list" THEN denest_list_items(node.members, 0, acc, name)
    ELSE DictSet(acc, slice_from_1(name), node.value)

\* dict_denester(inp): the top-level call starts from a new empty dict
dict_denester(node) == dict_denester_into(node, <<>>, <<>>)

----------------------------------------------------------------------------
(* port/ddpinspect/scanfiles.py: dict_denester, the same traversal with the *)
(* separator "_".                                                           *)

\* the separator of f"{name}_{k}"
ScanSeparator == "_"

\* a name extended with the separator of helpers.py
scan_extend_name_dash(name, k) == name \o <<"-">> \o k

\* f"{name}_{k}"
scan_extend_name(name, k) == name \o <<ScanSeparator>> \o k

RECURSIVE scan_dict_denester_into(_, _, _)
RECURSIVE scan_denest_dict_items(_, _, _)
RECURSIVE scan_denest_list_items(_, _, _, _)

\* the loop  for k, v in inp.items()
scan_denest_dict_items(items, acc, name) ==
    IF items = <<>> THEN acc
    ELSE LET k == Head(items)[1]
             v == Head(items)[2]
         IN  scan_denest_dict_items(
                 Tail(items),
                 IF v.kind \in {"dict", "list"}
                 THEN scan_dict_denester_into(v, acc, scan_extend_name(name, k))
                 ELSE DictSet(acc, slice_from_1(scan_extend_name(name, k)), v.value),
                 name)

\* the loop  for i, item in enumerate(inp)
scan_denest_list_items(items, i, acc, name) ==
    IF items = <<>> THEN acc
    ELSE scan_denest_list_items(
             Tail(items), i + 1,
             scan_dict_denester_into(Head(items), acc, scan_extend_name(name, str_int(i))),
             name)

\* dict_denester(inp, new, name, run_first=False): the recursive calls
scan_dict_denester_into(node, acc, name) ==
    IF node.kind = "dict" THEN scan_denest_dict_items(node.members, acc, name)
    ELSE IF node.kind = "list" THEN scan_denest_list_items(node.members, 0, acc, name)
    ELSE DictSet(acc, slice_from_1(name), node.value)

\* dict_denester(inp): run_first is True, so new is a new empty dict
scan_dict_denester(node) == scan_dict_denester_into(node, <<>>, <<>>)

----------------------------------------------------------------------------
(* Python values of the flattening, lookup and timestamp functions.         *)
(* A value is the pair <<type name, content>>:  <<"str", characters>>,      *)
(* <<"int", n>>, <<"bool", b>>, <<"NoneType", <<>>>>, <<"list", elements>>. *)
(* Python's int is unbounded and TLC's integers have 32 bits: an int n is   *)
(* the pair <<d, s>> with n = d * Day + s and 0 <= s < Day.                 *)

Day == 24 * 60 * 60

\* the int with the (small) value n
IntOf(n) == <<n \div Day, n % Day>>

\* a <= b
IntLeq(a, b) == a[1] < b[1] \/ (a[1] = b[1] /\ a[2] <= b[2])

\* -a
IntNeg(a) == IF a[2] = 0 THEN <<0 - a[1], 0>> ELSE <<0 - a[1] - 1, Day - a[2]>>

\* a * 10 + c for a >= 0 and a digit c
IntShift(a, c) ==
    LET s == a[2] * 10 + c
    IN  <<a[1] * 10 + (s \div Day), s % Day>>

\* divmod(a, 10) for a >= 0
IntDivMod10(a) ==
    LET r == (a[1] % 10) * Day + a[2]
    IN  [q |-> <<a[1] \div 10, r \div 10>>, r |-> r % 10]

RECURSIVE str_nat(_)
\* str(a) for an int a >= 0
str_nat(a) ==
    LET dm == IntDivMod10(a)
    IN  IF dm.q = <<0, 0>> THEN <<Digits[dm.r + 1]>>
        ELSE str_nat(dm.q) \o <<Digits[dm.r + 1]>>

\* str(a) for an int a
py_str_int(a) == IF a[1] < 0 THEN <<"-">> \o str_nat(IntNeg(a)) ELSE str_nat(a)

PyStr(chars) == <<"str", chars>>

PyInt(a) == <<"int", a>>

PyBool(b) == <<"bool", b>>

PyNone == <<"NoneType", <<>>>>

PyList(elements) == <<"list", elements>>

RECURSIVE py_join(_, _)
\* sep.join(strings)
py_join(sep, strings) ==
    IF strings = <<>> THEN <<>>
    ELSE IF Len(strings) = 1 THEN strings[1]
    ELSE strings[1] \o sep \o py_join(sep, Tail(strings))

RECURSIVE py_str(_)
RECURSIVE py_repr(_)

\* str(v)
py_str(v) ==
    IF v[1] = "str" THEN v[2]
    ELSE IF v[1] = "int" THEN py_str_int(v[2])
    ELSE IF v[1] = "bool"
    THEN (IF v[2] THEN <<"T", "r", "u", "e">> ELSE <<"F", "a", "l", "s", "e">>)
    ELSE IF v[1] = "list"
    THEN <<"[">> \o py_join(<<",", " ">>, [i \in DOMAIN v[2] |-> py_repr(v[2][i])]) \o <<"]">>
    ELSE <<"N", "o", "n", "e">>

\* repr(v), for strings without quotes or escapes
py_repr(v) == IF v[1] = "str" THEN <<"'">> \o v[2] \o <<"'">> ELSE py_str(v)

\* the characters of the model's strings, in code point order
CodePoints ==
    <<" ", "'", "(", "+", ",", "-", ".", "/",
      "0", "1", "2", "3", "4", "5", "6", "7", "8", "9",
      ":", "F", "L", "N", "T", "Z", "[", "]", "_",
      "a", "b", "c", "d", "e", "f", "g", "h", "i", "j", "k", "l", "m",
      "n", "o", "p", "q", "r", "s", "t", "u", "v", "w", "x", "y", "z">>

\* the order of ord(c)
ord(c) == CHOOSE i \in DOMAIN CodePoints : CodePoints[i] = c

RECURSIVE str_less(_, _)
\* a < b for strings
str_less(a, b) ==
    IF b = <<>> THEN FALSE
    ELSE IF a = <<>> THEN TRUE
    ELSE IF Head(a) = Head(b) THEN str_less(Tail(a), Tail(b))
    ELSE ord(Head(a)) < ord(Head(b))

RECURSIVE insert_item(_, _)
\* the sorted list of items with one more item
insert_item(sorted_items, item) ==
    IF sorted_items = <<>> THEN <<item>>
    ELSE IF str_less(item[1], Head(sorted_items)[1])
    THEN <<item>> \o sorted_items
    ELSE <<Head(sorted_items)>> \o insert_item(Tail(sorted_items), item)

RECURSIVE py_sorted(_)
\* sorted(obj.items()): the items in the order of their (distinct) keys
py_sorted(items) ==
    IF items = <<>> THEN <<>>
    ELSE insert_item(py_sorted(Tail(items)), Head(items))

\* list(reversed(lst))
py_reversed(lst) == [i \in DOMAIN lst |-> lst[Len(lst) + 1 - i]]

----------------------------------------------------------------------------
(* port/ddpinspect/scanfiles.py: flatten_nested_dict.                       *)
(* uuid.uuid4().hex gives every call an identifier of its own: the calls    *)
(* are numbered.  parent_id, the "/"-joined identifiers, is their sequence. *)

JsonItemDescription(name, object_id, parent_id, object_type, object_value, is_ip, is_time, is_url) ==
    [name |-> name, object_id |-> object_id, parent_id |-> parent_id,
     object_type |-> object_type, object_value |-> object_value,
     is_ip |-> is_ip, is_time |-> is_time, is_url |-> is_url]

\* str.isdigit() on the model's strings
isdigit(chars) == chars # <<>> /\ \A i \in DOMAIN chars : InList(chars[i], Digits)

\* "http://a.nl"
UrlText == <<"h", "t", "t", "p", ":", "/", "/", "a", ".", "n", "l">>

\* "2020-01-01"
DateText == <<"2", "0", "2", "0", "-", "0", "1", "-", "0", "1">>

\* "1.1.1.1"
IpText == <<"1", ".", "1", ".", "1", ".", "1">>

\* The classifiers of port/parserlib/stringparse.py hand the string to a
\* library and turn its verdict, or any exception, into a bool.  The verdicts
\* are those on the strings of the model: "x", "12", "http://a.nl" and
\* "2020-01-01".

\* is_ipaddress: ipaddress.ip_address accepts none of the four
is_ipaddress(chars) == chars = IpText

\* is_timestamp: the empty string and digit strings are refused by the
\* assertions, pandas.to_datetime parses "2020-01-01" only
is_timestamp(chars) ==
    IF chars = <<>> \/ isdigit(chars) THEN FALSE ELSE chars = DateText

\* has_url: the URL pattern finds a URL in "http://a.nl" only
has_url(chars) == chars = UrlText

\* type(obj).__name__
type_name(obj) == IF obj.kind = "leaf" THEN obj.value[1] ELSE obj.kind

\* the item of a call that classifies the string form of every scalar
item_of_classify_all(obj, name, object_id, parent_id) ==
    LET text == IF obj.kind = "dict"
                THEN py_join(<<":">>, [i \in DOMAIN obj.members |-> obj.members[i][1]])
                ELSE IF obj.kind = "list" THEN <<"L", "i", "s", "t">>
                ELSE py_str(obj.value)
    IN  JsonItemDescription(name, object_id, parent_id, type_name(obj), text,
            IF obj.kind = "leaf" THEN Some(is_ipaddress(text)) ELSE None,
            IF obj.kind = "leaf" THEN Some(is_timestamp(text)) ELSE None,
            IF obj.kind = "leaf" THEN Some(has_url(text)) ELSE None)

\* the item a call appends for obj (a dict already sorted): object_value and
\* the classification by the four branches on the type of obj
item_of(obj, name, object_id, parent_id) ==
    IF obj.kind = "dict"
    THEN JsonItemDescription(name, object_id, parent_id, type_name(obj),
             py_join(<<":">>, [i \in DOMAIN obj.members |-> obj.members[i][1]]),
             None, None, None)
    ELSE IF obj.kind = "list"
    THEN JsonItemDescription(name, object_id, parent_id, type_name(obj),
             <<"L", "i", "s", "t">>, None, None, None)
    ELSE IF obj.value[1] = "str"
    THEN JsonItemDescription(name, object_id, parent_id, type_name(obj),
             obj.value[2],
             Some(is_ipaddress(obj.value[2])),
             Some(is_timestamp(obj.value[2])),
             Some(has_url(obj.value[2])))
    ELSE JsonItemDescription(name, object_id, parent_id, type_name(obj),
             py_str(obj.value), None, None, None)

RECURSIVE flatten_call(_, _, _, _)
RECURSIVE flatten_call_leaves_only(_, _, _, _)
RECURSIVE flatten_call_reversing_out(_, _, _, _)
RECURSIVE flatten_call_parent_not_extended(_, _, _, _)
RECURSIVE flatten_dict_items(_, _, _)
RECURSIVE flatten_list_items(_, _, _, _, _)

\* the loop  for k, v in obj.items()  over the sorted dict
flatten_dict_items(items, parent_id, st) ==
    IF items = <<>> THEN st
    ELSE flatten_dict_items(
             Tail(items), parent_id,
             flatten_call(Head(items)[2], Head(items)[1], parent_id, st))

\* the loop  for index, item in enumerate(obj)
flatten_list_items(items, index, name, parent_id, st) ==
    IF items = <<>> THEN st
    ELSE flatten_list_items(
             Tail(items), index + 1, name, parent_id,
             flatten_call(Head(items), name \o <<"_">> \o str_int(index), parent_id, st))

\* a call that appends an item for scalars only
flatten_call_leaves_only(obj, name, parent_id, st) ==
    LET object_id == st.calls + 1
        path      == Append(parent_id, object_id)
        entered   == [st EXCEPT !.calls = object_id]
        sorted    == IF obj.kind = "dict"
                     THEN [obj EXCEPT !.members = py_sorted(obj.members)] ELSE obj
        inner     == IF obj.kind = "dict"
                     THEN flatten_dict_items(sorted.members, path, entered)
                     ELSE IF obj.kind = "list"
                     THEN flatten_list_items(obj.members, 0, name, path, entered)
                     ELSE entered
    IN  IF obj.kind = "leaf"
        THEN [inner EXCEPT !.out = Append(@, item_of(sorted, name, object_id, path))]
        ELSE inner

\* a call that reverses the shared list itself before it returns
flatten_call_reversing_out(obj, name, parent_id, st) ==
    LET object_id == st.calls + 1
        path      == Append(parent_id, object_id)
        entered   == [st EXCEPT !.calls = object_id]
        sorted    == IF obj.kind = "dict"
                     THEN [obj EXCEPT !.members = py_sorted(obj.members)] ELSE obj
        inner     == IF obj.kind = "dict"
                     THEN flatten_dict_items(sorted.members, path, entered)
                     ELSE IF obj.kind = "list"
                     THEN flatten_list_items(obj.members, 0, name, path, entered)
                     ELSE entered
    IN  [inner EXCEPT !.out = py_reversed(Append(@, item_of(sorted, name, object_id, path)))]

\* a call that hands its own parent_id, not the extended one, to the calls
\* for its members
flatten_call_parent_not_extended(obj, name, parent_id, st) ==
    LET object_id == st.calls + 1
        path      == Append(parent_id, object_id)
        entered   == [st EXCEPT !.calls = object_id]
        sorted    == IF obj.kind = "dict"
                     THEN [obj EXCEPT !.members = py_sorted(obj.members)] ELSE obj
        inner     == IF obj.kind = "dict"
                     THEN flatten_dict_items(sorted.members, parent_id, entered)
                     ELSE IF obj.kind = "list"
                     THEN flatten_list_items(obj.members, 0, name, parent_id, entered)
                     ELSE entered
    IN  [inner EXCEPT !.out = Append(@, item_of(sorted, name, object_id, path))]

\* one call of flatten_nested_dict: st.out is the shared list out, st.calls
\* the number of calls made so far; the value a recursive call returns is
\* dropped by its caller
flatten_call(obj, name, parent_id, st) ==
    LET object_id == st.calls + 1
        path      == Append(parent_id, object_id)
        entered   == [st EXCEPT !.calls = object_id]
        sorted    == IF obj.kind = "dict"
                     THEN [obj EXCEPT !.members = py_sorted(obj.members)] ELSE obj
        inner     == IF obj.kind = "dict"
                     THEN flatten_dict_items(sorted.members, path, entered)
                     ELSE IF obj.kind = "list"
                     THEN flatten_list_items(obj.members, 0, name, path, entered)
                     ELSE entered
    IN  [inner EXCEPT !.out = Append(@, item_of(sorted, name, object_id, path))]

\* flatten_nested_dict(obj, name, parent_id, out) as its caller sees it
flatten_nested_dict(obj, name, parent_id, out) ==
    py_reversed(flatten_call(obj, name, parent_id, [out |-> out, calls |-> 0]).out)

\* "toplevel"
Toplevel == <<"t", "o", "p", "l", "e", "v", "e", "l">>

----------------------------------------------------------------------------
(* port/helpers.py: find_items (port/facebook.py and port/twitter.py hold   *)
(* copies of it), and port/twitter.py: find_all.                            *)
(* The argument d is [kind, items]: kind "dict" with the items of the dict, *)
(* or the type name of a value without items().                             *)
(* The pattern is  ^.*{key_to_match}.*$ ; of the syntax of regular          *)
(* expressions the model has the literal characters, "." (any character)    *)
(* and "(" (which, unclosed, makes re.match raise re.error).                *)

PyDict(items) == [kind |-> "dict", items |-> items]

NotADict == [kind |-> "NoneType", items |-> <<>>]

\* math.inf
Inf == None

\* depth_current_match < depth
less_than(depth_current_match, depth) ==
    depth = Inf \/ depth_current_match < depth[1]

\* depth_current_match <= depth
less_or_equal(depth_current_match, depth) ==
    depth = Inf \/ depth_current_match <= depth[1]

\* k.count("-")
count_separator(k) == Cardinality({i \in DOMAIN k : k[i] = Separator})

\* re.compile accepts the pattern
re_compiles(key_to_match) == ~InList("(", key_to_match)

\* the characters of key_to_match occur in k as they are (for the properties)
contains_literally(key_to_match, k) ==
    \E off \in 0..(Len(k) - Len(key_to_match)) :
        \A j \in DOMAIN key_to_match : key_to_match[j] = k[off + j]

\* re.match(pattern, k) for a pattern that compiles: .* skips any prefix and
\* suffix of k, between them key_to_match matches character by character
re_match(key_to_match, k) ==
    \E off \in 0..(Len(k) - Len(key_to_match)) :
        \A j \in DOMAIN key_to_match :
            key_to_match[j] = "." \/ key_to_match[j] = k[off + j]

\* an except clause for re.error alone
except_re_error(exc) == exc = "re.error"

\* except Exception: every exception of the loop is caught
except_Exception(exc) == TRUE

\* one round of the loop with <= in place of <
find_items_step_last_wins(k, v, key_to_match, st) ==
    IF re_match(key_to_match, k) /\ less_or_equal(count_separator(k), st.depth)
    THEN [st EXCEPT !.depth = Some(count_separator(k)), !.out = py_str(v)]
    ELSE st

\* one round of the loop of find_items, for a pattern that compiles
find_items_step(k, v, key_to_match, st) ==
    IF re_match(key_to_match, k) /\ less_than(count_separator(k), st.depth)
    THEN [st EXCEPT !.depth = Some(count_separator(k)), !.out = py_str(v)]
    ELSE st

RECURSIVE find_items_loop(_, _, _)
\* for k, v in d.items(); the first re.match compiles the pattern
find_items_loop(items, key_to_match, st) ==
    IF items = <<>> THEN st
    ELSE IF ~re_compiles(key_to_match) THEN [st EXCEPT !.exc = "re.error"]
    ELSE find_items_loop(
             Tail(items), key_to_match,
             find_items_step(Head(items)[1], Head(items)[2], key_to_match, st))

\* find_items(d, key_to_match): [raised, out]
find_items(d, key_to_match) ==
    LET start == [out |-> <<>>, depth |-> Inf, exc |-> "none"]
        tried == IF d.kind # "dict"
                 THEN [start EXCEPT !.exc = "AttributeError"]
                 ELSE find_items_loop(d.items, key_to_match, start)
    IN  IF tried.exc # "none" /\ ~except_Exception(tried.exc)
        THEN [raised |-> tried.exc, out |-> <<>>]
        ELSE [raised |-> "none", out |-> tried.out]

RECURSIVE find_all_loop(_, _, _)
\* the loop of find_all
find_all_loop(items, key_to_match, st) ==
    IF items = <<>> THEN st
    ELSE IF ~re_compiles(key_to_match) THEN [st EXCEPT !.exc = "re.error"]
    ELSE find_all_loop(
             Tail(items), key_to_match,
             IF re_match(key_to_match, Head(items)[1])
             THEN [st EXCEPT !.out = Append(@, Head(items)[2])]
             ELSE st)

\* twitter.find_all(d, key_to_match): [raised, out]
find_all(d, key_to_match) ==
    LET start == [out |-> <<>>, exc |-> "none"]
        tried == IF d.kind # "dict"
                 THEN [start EXCEPT !.exc = "AttributeError"]
                 ELSE find_all_loop(d.items, key_to_match, start)
    IN  IF tried.exc # "none" /\ ~except_Exception(tried.exc)
        THEN [raised |-> tried.exc, out |-> <<>>]
        ELSE [raised |-> "none", out |-> tried.out]

----------------------------------------------------------------------------
(* port/helpers.py: is_isoformat, is_epoch, epoch_to_iso, and               *)
(* port/parserlib/stringparse.py: epoch_to_iso (its is_isoformat and        *)
(* is_epoch are copies of those of helpers.py).                             *)
(* The outcome of a call is [raised, ret]: the exception that left the      *)
(* function (NoException when it returned) and the value returned.          *)

Exception(type, args, cause) == [type |-> type, args |-> args, cause |-> cause]

NoException == Exception("none", <<>>, "none")

Returns(value) == [raised |-> NoException, ret |-> value]

Raises(exception) == [raised |-> exception, ret |-> PyNone]

\* the value of a decimal digit
digit_value(c) == (CHOOSE i \in DOMAIN Digits : Digits[i] = c) - 1

RECURSIVE int_of_digits(_, _)
\* the int written with the given decimal digits, after those read into acc
int_of_digits(digits, acc) ==
    IF digits = <<>> THEN acc
    ELSE int_of_digits(Tail(digits), IntShift(acc, digit_value(Head(digits))))

\* an int literal
IntLiteral(digits) == int_of_digits(digits, <<0, 0>>)

\* str.isdigit() with the empty string allowed
all_digits(chars) == \A i \in DOMAIN chars : InList(chars[i], Digits)

RECURSIVE lstrip(_)
lstrip(chars) ==
    IF chars # <<>> /\ Head(chars) = " " THEN lstrip(Tail(chars)) ELSE chars

RECURSIVE rstrip(_)
rstrip(chars) ==
    IF chars # <<>> /\ chars[Len(chars)] = " "
    THEN rstrip(SubSeq(chars, 1, Len(chars) - 1)) ELSE chars

\* int(x): [exc, value].  A str is read as optional blanks, an optional sign
\* and decimal digits (digit separators "_" are not modelled).
py_int(x) ==
    IF x[1] = "int" THEN [exc |-> "none", value |-> x[2]]
    ELSE IF x[1] = "bool"
    THEN [exc |-> "none", value |-> IF x[2] THEN <<0, 1>> ELSE <<0, 0>>]
    ELSE IF x[1] = "str"
    THEN LET stripped == rstrip(lstrip(x[2]))
             signed   == stripped # <<>> /\ Head(stripped) \in {"+", "-"}
             digits   == IF signed THEN Tail(stripped) ELSE stripped
         IN  IF digits = <<>> \/ ~all_digits(digits)
             THEN [exc |-> "ValueError", value |-> <<0, 0>>]
             ELSE [exc |-> "none",
                   value |-> IF signed /\ Head(stripped) = "-"
                             THEN IntNeg(IntLiteral(digits)) ELSE IntLiteral(digits)]
    ELSE [exc |-> "TypeError", value |-> <<0, 0>>]

\* helpers.py line 127
year2000 == IntLiteral(<<"9", "4", "6", "6", "8", "4", "8", "0", "0">>)

\* helpers.py line 128
year2040 == IntLiteral(<<"2", "2", "0", "8", "9", "8", "8", "8", "0", "0">>)

\* the whole list instead of its first check_minimum values
whole_list(values, check_minimum) == Len(values)

\* min(len(values), check_minimum)
sampled(values, check_minimum) ==
    IF Len(values) <= check_minimum THEN Len(values) ELSE check_minimum

\* a window that leaves out year2040 itself
in_window_below_2040(check_time) ==
    IntLeq(year2000, check_time) /\ IntLeq(check_time, year2040) /\ check_time # year2040

\* year2000 <= check_time <= year2040
in_window(check_time) == IntLeq(year2000, check_time) /\ IntLeq(check_time, year2040)

RECURSIVE is_epoch_loop(_, _, _)
\* for i in range(...), from the i-th value on: [exc, ret]
is_epoch_loop(values, i, n) ==
    IF i > n THEN [exc |-> "none", ret |-> TRUE]
    ELSE LET check_time == py_int(values[i])
         IN  IF check_time.exc # "none" THEN [exc |-> check_time.exc, ret |-> FALSE]
             ELSE IF ~in_window(check_time.value) THEN [exc |-> "none", ret |-> FALSE]
             ELSE is_epoch_loop(values, i + 1, n)

\* is_epoch(datetime_int, check_minimum); len() of a value that is no list
\* raises TypeError inside the try
is_epoch(datetime_int, check_minimum) ==
    LET tried == IF datetime_int[1] # "list"
                 THEN [exc |-> "TypeError", ret |-> FALSE]
                 ELSE is_epoch_loop(datetime_int[2], 1,
                                    sampled(datetime_int[2], check_minimum))
    IN  IF tried.exc # "none" THEN Returns(PyBool(FALSE))
        ELSE Returns(PyBool(tried.ret))

\* two decimal digits with a value from lo to hi
two_digits(chars, lo, hi) ==
    /\ Len(chars) = 2
    /\ all_digits(chars)
    /\ lo <= digit_value(chars[1]) * 10 + digit_value(chars[2])
    /\ digit_value(chars[1]) * 10 + digit_value(chars[2]) <= hi

\* (-?(?:[1-9][0-9]*)?[0-9]{4})
match_year(chars) ==
    LET digits == IF chars # <<>> /\ Head(chars) = "-" THEN Tail(chars) ELSE chars
    IN  /\ Len(digits) >= 4
        /\ all_digits(digits)
        /\ Len(digits) > 4 => digits[1] # "0"

\* re.fullmatch(REGEX_ISO8601_DATE, chars)
match_iso8601_date(chars) ==
    LET n == Len(chars)
    IN  /\ n >= 10
        /\ match_year(SubSeq(chars, 1, n - 6))
        /\ chars[n - 5] = "-"
        /\ two_digits(SubSeq(chars, n - 4, n - 3), 1, 12)
        /\ chars[n - 2] = "-"
        /\ two_digits(SubSeq(chars, n - 1, n), 1, 31)

\* (Z|[+-](?:2[0-3]|[01][0-9]):[0-5][0-9])?
match_zone(chars) ==
    \/ chars = <<>>
    \/ chars = <<"Z">>
    \/ /\ Len(chars) = 6
       /\ chars[1] \in {"+", "-"}
       /\ two_digits(SubSeq(chars, 2, 3), 0, 23)
       /\ chars[4] = ":"
       /\ two_digits(SubSeq(chars, 5, 6), 0, 59)

\* (\.[0-9]+)?
match_fraction(chars) ==
    \/ chars = <<>>
    \/ Len(chars) >= 2 /\ Head(chars) = "." /\ all_digits(Tail(chars))

\* re.fullmatch(REGEX_ISO8601_FULL, chars)
match_iso8601_full(chars) ==
    \E t \in DOMAIN chars :
        /\ chars[t] = "T"
        /\ match_iso8601_date(SubSeq(chars, 1, t - 1))
        /\ Len(chars) >= t + 8
        /\ two_digits(SubSeq(chars, t + 1, t + 2), 0, 23)
        /\ chars[t + 3] = ":"
        /\ two_digits(SubSeq(chars, t + 4, t + 5), 0, 59)
        /\ chars[t + 6] = ":"
        /\ two_digits(SubSeq(chars, t + 7, t + 8), 0, 59)
        /\ \E k \in (t + 8)..Len(chars) :
               /\ match_fraction(SubSeq(chars, t + 9, k))
               /\ match_zone(SubSeq(chars, k + 1, Len(chars)))

RECURSIVE is_isoformat_loop(_, _, _, _)
\* for i in range(...), from the i-th value on: [exc, ret]
is_isoformat_loop(values, i, n, date_only) ==
    IF i > n THEN [exc |-> "none", ret |-> TRUE]
    ELSE IF values[i][1] \in {"int", "bool"} THEN [exc |-> "none", ret |-> FALSE]
    ELSE IF values[i][1] # "str" THEN [exc |-> "TypeError", ret |-> FALSE]
    ELSE IF ~(IF date_only THEN match_iso8601_date(values[i][2])
                           ELSE match_iso8601_full(values[i][2]))
    THEN [exc |-> "none", ret |-> FALSE]
    ELSE is_isoformat_loop(values, i + 1, n, date_only)

\* is_isoformat(datetime_str, check_minimum, date_only); the handler logs
\* datetime_str[i], and i is unbound when len() raised
is_isoformat(datetime_str, check_minimum, date_only) ==
    IF datetime_str[1] # "list"
    THEN Raises(Exception("UnboundLocalError", <<>>, "TypeError"))
    ELSE Returns(PyBool(is_isoformat_loop(datetime_str[2], 1,
                     sampled(datetime_str[2], check_minimum), date_only).ret))

\* the civil date of the day number z (days since 1970-01-01)
civil_from_days(z) ==
    LET shifted == z + 719468
        era     == shifted \div 146097
        doe     == shifted - era * 146097
        yoe     == (doe - (doe \div 1460) + (doe \div 36524) - (doe \div 146096)) \div 365
        doy     == doe - (365 * yoe + (yoe \div 4) - (yoe \div 100))
        mp      == (5 * doy + 2) \div 153
        month   == IF mp < 10 THEN mp + 3 ELSE mp - 9
    IN  [year  |-> yoe + era * 400 + (IF month <= 2 THEN 1 ELSE 0),
         month |-> month,
         day   |-> doy - ((153 * mp + 2) \div 5) + 1]

\* datetime.fromtimestamp(epoch_timestamp, tz=timezone.utc): [exc, date, second];
\* outside the years 1 to 9999 it raises ValueError, OverflowError or OSError
fromtimestamp(epoch_timestamp) ==
    LET date == civil_from_days(epoch_timestamp[1])
    IN  IF date.year < 1 \/ date.year > 9999
        THEN [exc |-> "ValueError", date |-> date, second |-> 0]
        ELSE [exc |-> "none", date |-> date, second |-> epoch_timestamp[2]]

RECURSIVE zero_padded(_, _)
\* n written with at least width digits
zero_padded(n, width) ==
    IF width <= 1 /\ n < 10 THEN <<Digits[n + 1]>>
    ELSE zero_padded(n \div 10, width - 1) \o <<Digits[(n % 10) + 1]>>

\* datetime.isoformat() of a time in UTC without microseconds
isoformat(dt) ==
    zero_padded(dt.date.year, 4) \o <<"-">> \o zero_padded(dt.date.month, 2) \o <<"-">>
        \o zero_padded(dt.date.day, 2) \o <<"T">>
        \o zero_padded(dt.second \div 3600, 2) \o <<":">>
        \o zero_padded((dt.second % 3600) \div 60, 2) \o <<":">>
        \o zero_padded(dt.second % 60, 2) \o <<"+", "0", "0", ":", "0", "0">>

\* the two statements of the try block: [exc, out]
convert_epoch(epoch_timestamp) ==
    LET as_int == py_int(epoch_timestamp)
        dt     == fromtimestamp(as_int.value)
    IN  IF as_int.exc # "none" THEN [exc |-> as_int.exc, out |-> <<>>]
        ELSE IF dt.exc # "none" THEN [exc |-> dt.exc, out |-> <<>>]
        ELSE [exc |-> "none", out |-> isoformat(dt)]

\* an except clause that leaves TypeError out
except_without_TypeError(exc) == exc \in {"OverflowError", "OSError", "ValueError"}

\* helpers.py: except (OverflowError, OSError, ValueError, TypeError)
helpers_except(exc) == exc \in {"OverflowError", "OSError", "ValueError", "TypeError"}

\* helpers.epoch_to_iso(epoch_timestamp)
helpers_epoch_to_iso(epoch_timestamp) ==
    LET out   == py_str(epoch_timestamp)
        tried == convert_epoch(epoch_timestamp)
    IN  IF tried.exc = "none" THEN Returns(PyStr(tried.out))
        ELSE IF helpers_except(tried.exc) THEN Returns(PyStr(out))
        ELSE Raises(Exception(tried.exc, <<>>, "none"))

\* "Cannot convert epoch timestamp"
CannotConvertMessage ==
    <<"C", "a", "n", "n", "o", "t", " ", "c", "o", "n", "v", "e", "r", "t", " ",
      "e", "p", "o", "c", "h", " ", "t", "i", "m", "e", "s", "t", "a", "m", "p">>

\* an except clause that leaves ValueError out
except_without_ValueError(exc) == exc \in {"OverflowError", "OSError", "TypeError"}

\* stringparse.py: except (OverflowError, OSError, ValueError, TypeError)
stringparse_except(exc) == exc \in {"OverflowError", "OSError", "ValueError", "TypeError"}

\* stringparse.epoch_to_iso(epoch_timestamp)
stringparse_epoch_to_iso(epoch_timestamp) ==
    LET tried == convert_epoch(epoch_timestamp)
    IN  IF tried.exc = "none" THEN Returns(PyStr(tried.out))
        ELSE IF stringparse_except(tried.exc)
        THEN Raises(Exception("CannotConvertEpochTimestamp",
                              <<PyStr(CannotConvertMessage)>>, tried.exc))
        ELSE Raises(Exception(tried.exc, <<>>, "none"))

----------------------------------------------------------------------------
(* port/helpers.py: convert_datetime_str.                                   *)
(* pandas.to_datetime is the library's: what it does with the values is the *)
(* caller's environment, given to the model as pandas, "ok" when it         *)
(* converts them and else the exception it raises.  The index it returns is *)
(* kept as the values and the keyword arguments of the call, "" for none.   *)

\* finally: return <value> -- the return ends the call, and an exception
\* that no except clause caught is dropped by it
finally_return(in_flight, value) == Returns(value)

\* the check_minimum of the three detection calls
SampleOfTen == 10

\* pd.to_datetime(datetime_str, **keywords)
to_datetime(datetime_str, keywords, pandas) ==
    IF pandas = "ok" THEN Returns(<<"DatetimeIndex", <<keywords, datetime_str>>>>)
    ELSE Raises(Exception(pandas, <<>>, "none"))

\* a chain that asks is_epoch before the two is_isoformat
conversion_epoch_first(datetime_str, pandas) ==
    IF is_epoch(datetime_str, SampleOfTen).ret = PyBool(TRUE)
    THEN to_datetime(datetime_str, "unit=s", pandas)
    ELSE LET full == is_isoformat(datetime_str, SampleOfTen, FALSE)
             date == is_isoformat(datetime_str, SampleOfTen, TRUE)
         IN  IF full.raised # NoException THEN full
             ELSE IF full.ret = PyBool(TRUE) THEN to_datetime(datetime_str, "", pandas)
             ELSE IF date.raised # NoException THEN date
             ELSE IF date.ret = PyBool(TRUE) THEN to_datetime(datetime_str, "", pandas)
             ELSE to_datetime(datetime_str, "infer_datetime_format, dayfirst", pandas)

\* the if / elif / elif / else of the try statement: the value assigned to
\* out, or the exception that leaves the try
conversion(datetime_str, pandas) ==
    LET full  == is_isoformat(datetime_str, SampleOfTen, FALSE)
        date  == is_isoformat(datetime_str, SampleOfTen, TRUE)
        epoch == is_epoch(datetime_str, SampleOfTen)
    IN  IF full.raised # NoException THEN full
        ELSE IF full.ret = PyBool(TRUE) THEN to_datetime(datetime_str, "", pandas)
        ELSE IF date.raised # NoException THEN date
        ELSE IF date.ret = PyBool(TRUE) THEN to_datetime(datetime_str, "", pandas)
        ELSE IF epoch.raised # NoException THEN epoch
        ELSE IF epoch.ret = PyBool(TRUE) THEN to_datetime(datetime_str, "unit=s", pandas)
        ELSE to_datetime(datetime_str, "infer_datetime_format, dayfirst", pandas)

\* except (ValueError, TypeError, OverflowError)
convert_except(exc) == exc \in {"ValueError", "TypeError", "OverflowError"}

\* convert_datetime_str(datetime_str): out is None until a conversion has
\* returned, and the return of the finally clause ends the call whether or
\* not the except clause caught the exception
convert_datetime_str(datetime_str, pandas) ==
    LET tried     == conversion(datetime_str, pandas)
        out       == IF tried.raised = NoException THEN tried.ret ELSE PyNone
        in_flight == IF tried.raised = NoException \/ convert_except(tried.raised.type)
                     THEN "none" ELSE tried.raised.type
    IN  finally_return(in_flight, out)

----------------------------------------------------------------------------
(* port/ddpinspect/unzipddp.py: extract_file_from_zip.                      *)
(* The archive is [kind, entries]: kind "zip" when zipfile.ZipFile opens    *)
(* it, else the exception it raises; an entry is [filename, data, read]     *)
(* with filename the sequence of its path components and "/" separators,    *)
(* data its bytes, and read "ok" or the exception zf.read raises for it     *)
(* (an encrypted or damaged entry).                                         *)

\* io.BytesIO(data)
BytesIO(data) == <<"BytesIO", data>>

\* Path(f).name: the last component, a trailing "/" set aside
Path_name(f) ==
    IF f = <<>> THEN ""
    ELSE IF f[Len(f)] = "/" THEN (IF Len(f) = 1 THEN "" ELSE f[Len(f) - 1])
    ELSE f[Len(f)]

\* the outcome of the body of the try statement: the exception that left it
\* ("none" if none did) and file_to_extract_bytes as it then is
TryOutcome(exc, buffer) == [exc |-> exc, file_to_extract_bytes |-> buffer]

RECURSIVE namelist_loop_without_break(_, _, _)
\* the loop without its break: every entry of that name is read
namelist_loop_without_break(entries, file_to_extract, st) ==
    IF entries = <<>>
    THEN IF st.file_found THEN TryOutcome("none", st.buffer)
         ELSE TryOutcome("FileNotFoundInZipError", st.buffer)
    ELSE LET entry == Head(entries)
         IN  IF Path_name(entry.filename) = file_to_extract
             THEN IF entry.read # "ok" THEN TryOutcome(entry.read, st.buffer)
                  ELSE namelist_loop_without_break(
                           Tail(entries), file_to_extract,
                           [file_found |-> TRUE, buffer |-> BytesIO(entry.data)])
             ELSE namelist_loop_without_break(Tail(entries), file_to_extract, st)

RECURSIVE namelist_loop(_, _, _)
\* the loop  for f in zf.namelist()  with its break, and the raise of
\* FileNotFoundInZipError after it
namelist_loop(entries, file_to_extract, st) ==
    IF entries = <<>>
    THEN IF st.file_found THEN TryOutcome("none", st.buffer)
         ELSE TryOutcome("FileNotFoundInZipError", st.buffer)
    ELSE LET entry == Head(entries)
         IN  IF Path_name(entry.filename) = file_to_extract
             THEN IF entry.read # "ok" THEN TryOutcome(entry.read, st.buffer)
                  ELSE TryOutcome("none", BytesIO(entry.data))
             ELSE namelist_loop(Tail(entries), file_to_extract, st)

\* the exceptions of the model that  except Exception  catches
ExceptionSubclasses == {"BadZipFile", "FileNotFoundInZipError", "OSError", "RuntimeError"}

\* the three except clauses: BadZipFile, FileNotFoundInZipError, Exception
extract_except(exc) ==
    exc = "BadZipFile" \/ exc = "FileNotFoundInZipError" \/ exc \in ExceptionSubclasses

\* extract_file_from_zip(zfile, file_to_extract)
extract_file_from_zip(zfile_arg, file_to_extract) ==
    LET empty == BytesIO(<<>>)
        tried == IF zfile_arg.kind # "zip" THEN TryOutcome(zfile_arg.kind, empty)
                 ELSE namelist_loop(zfile_arg.entries, file_to_extract,
                                    [file_found |-> FALSE, buffer |-> empty])
        in_flight == IF tried.exc = "none" \/ extract_except(tried.exc)
                     THEN "none" ELSE tried.exc
    IN  finally_return(in_flight, tried.file_to_extract_bytes)

----------------------------------------------------------------------------
(* port/helpers.py: split_dataframe.                                        *)
(* A DataFrame is [index, rows]: the row labels and the rows, in order.     *)

DataFrame(index, rows) == [index |-> index, rows |-> rows]

\* the labels 0, 1, ..., n - 1 of a RangeIndex
RangeIndex(n) == [i \in 1..n |-> i - 1]

\* df[start:stop] for 0 <= start <= stop: the rows at the positions start to
\* stop - 1 that exist, under their labels
df_slice(df, start, stop) ==
    LET n     == Len(df.rows)
        first == IF start < n THEN start ELSE n
        last  == IF stop < n THEN stop ELSE n
    IN  DataFrame(SubSeq(df.index, first + 1, last), SubSeq(df.rows, first + 1, last))

\* df.reset_index(drop=True)
reset_index_drop(df) == DataFrame(RangeIndex(Len(df.rows)), df.rows)

\* the number of splits without the term for the remainder
num_splits_of_whole_chunks(length, row_count) == length \div row_count

\* int(len(df) / row_count) + (len(df) % row_count > 0), for row_count >= 1
num_splits_of(length, row_count) ==
    (length \div row_count) + (IF length % row_count > 0 THEN 1 ELSE 0)

\* split_dataframe(df, row_count); the division raises for row_count = 0
split_dataframe(df, row_count) ==
    IF row_count = 0 THEN Raises(Exception("ZeroDivisionError", <<>>, "none"))
    ELSE LET num_splits == num_splits_of(Len(df.rows), row_count)
         IN  Returns(PyList([k \in 1..num_splits |->
                 reset_index_drop(df_slice(df, (k - 1) * row_count, k * row_count))]))

----------------------------------------------------------------------------
(* port/script.py: process(sessionId), the donation flow, with the          *)
(* validate_zip and extraction functions it calls.                          *)
(* A submitted file is  [zf, documents]:  zf the archive as validate_zip    *)
(* sees it, documents what the extraction function finds in it:             *)
(*   "rows"     the documents it reads are there and give table rows,       *)
(*   "no_rows"  they are there and give no row,                             *)
(*   "missing"  extract_file_from_zip returned an empty buffer (an archive  *)
(*              that cannot be read, or no entry of that name), or the      *)
(*              document lacks the key the function looks up.               *)
(* A payload is  [type, value]  with type the payload's __type__, and no    *)
(* value for PayloadTrue and PayloadFalse; a JSON text is  [json |-> text]. *)
(* The generator is run from one yield to the next: process_resume is what  *)
(* next(g) and g.send(sent) do to its frame  [pc, index, progress, data,    *)
(* extractionResult, consent_result],  pc naming the yield it is            *)
(* suspended at.  Progress is kept as the exact fraction <<n, d>>; the      *)
(* Python floats are multiples of 12.5 and exact as well.                   *)

\* STATUS_CODES of ddpinspect/twitter.py, instagram.py and facebook.py
Zip_STATUS_CODES ==
    <<
        StatusCode(0, "Valid zip", "Valid zip"),
        StatusCode(1, "Bad zipfile", "Bad zipfile")
    >>

\* the registry of ddpinspect/tiktok.py, a module the flow imports: one
\* fingerprint naming the document extract_tiktok reads
TikTok_DDP_CATEGORIES == <<DDPCategory("json_en", "JSON", "EN", <<"user_data.json">>)>>

\* DDP_CATEGORIES of the ddpinspect module of a platform: those of the port
\* module of the same name, but for Twitter where tweet.js stands for tweets.js
zip_DDP_CATEGORIES(platform_name) ==
    IF platform_name = "Twitter"
    THEN [c \in DOMAIN Twitter_DDP_CATEGORIES |->
            [Twitter_DDP_CATEGORIES[c] EXCEPT !.known_files =
                Some([i \in DOMAIN @[1] |->
                        IF @[1][i] = "tweets.js" THEN "tweet.js" ELSE @[1][i]])]]
    ELSE IF platform_name = "Instagram" THEN Instagram_DDP_CATEGORIES
    ELSE IF platform_name = "Facebook" THEN Facebook_DDP_CATEGORIES
    ELSE TikTok_DDP_CATEGORIES

\* validate_zip(zfile) of a ddpinspect module: the status is set to 0 before
\* the category is inferred, BadZipFile gives status 1
validate_zip(platform_name, zf) ==
    LET validate == ValidateInput(Zip_STATUS_CODES, zip_DDP_CATEGORIES(platform_name))
        paths    == collect_paths(zf.namelist,
                        IF platform_name = "Twitter" THEN in_dot_js ELSE html_or_json)
    IN  IF zf.kind = "BadZipFile"
        THEN set_status_code(validate, 1)
        ELSE infer_ddp_category(set_status_code(validate, 0), paths).self

\* extract_twitter, extract_instagram, extract_facebook, extract_tiktok:
\* (validation, result), result a dict of tables that is empty when no rows
\* were found.  extract_instagram and extract_facebook subscript the decoded
\* document without a guard and raise KeyError when it is missing.
extraction_fun(platform_name, file) ==
    IF file.documents = "missing" /\ platform_name \in {"Instagram", "Facebook"}
    THEN Raises(Exception("KeyError", <<>>, "none"))
    ELSE Returns(<<validate_zip(platform_name, file.zf),
                   IF file.documents = "rows"
                   THEN <<<<platform_name, "rows">>>>
                   ELSE <<>>>>)

platforms == <<"Twitter", "Instagram", "Facebook", "TikTok">>

\* (100 / subflows) / steps,  subflows = len(platforms), steps = 2
step_percentage == <<100, Len(platforms) * 2>>

\* progress += step_percentage
add_step(progress) == <<progress[1] + step_percentage[1], step_percentage[2]>>

CommandSystemDonate(key, json_string) ==
    [type |-> "CommandSystemDonate", key |-> key, json_string |-> json_string]

CommandUIRender(page) == [type |-> "CommandUIRender", page |-> page]

donate(key, json_string) == CommandSystemDonate(key, json_string)

\* donate_logs(f"{sessionId}-tracking"): the key is no platform name
\* whatever the session id, the log text is left open
donate_logs == donate("sessionId-tracking", [json |-> "logs"])

render_end_page == CommandUIRender([kind |-> "PropsUIPageEnd"])

\* body: the prompt shown, a file input, a confirmation or a consent form
render_donation_page(platform_name, body, progress) ==
    CommandUIRender([kind |-> "PropsUIPageDonation", platform |-> platform_name,
                     body |-> body, progress |-> progress])

prompt_file == [prompt |-> "PropsUIPromptFileInput", data |-> <<>>]

retry_confirmation == [prompt |-> "PropsUIPromptConfirm", data |-> <<>>]

prompt_consent(data) == [prompt |-> "PropsUIPromptConsentForm", data |-> data]

return_empty_result_set == <<<<"empty", "No data found">>>>

\* the generator before its first next()
NewGenerator ==
    [pc |-> "unstarted", index |-> 0, progress |-> <<0, step_percentage[2]>>,
     data |-> None, extractionResult |-> <<>>, consent_result |-> None]

\* the generator suspended at the yield  label  with  command
Yield(g, label, command) ==
    [gen |-> [g EXCEPT !.pc = label], command |-> Some(command), raised |-> NoException]

\* the head of  for platform in platforms  for the platform at  index,  down
\* to the first yield of  while True;  after the last platform the end page
for_platform(g, index) ==
    IF index > Len(platforms)
    THEN Yield([g EXCEPT !.index = index], "end", render_end_page)
    ELSE Yield([g EXCEPT !.index = index, !.data = None, !.progress = add_step(@)],
               "log_prompt", donate_logs)

\* STEP 2 up to its first yield: without data the next platform follows
ask_for_consent(g) ==
    LET stepped == [g EXCEPT !.progress = add_step(@)]
    IN  IF stepped.data # None
        THEN Yield(stepped, "log_consent", donate_logs)
        ELSE for_platform(stepped, stepped.index + 1)

\* fileResult arrives: the three paths of the flow, and the path of no branch
\* where the body of  while True  ends and starts over
file_answered(g, sent) ==
    IF sent.type = "PayloadString"
    THEN LET called           == extraction_fun(platforms[g.index], sent.value)
             validation_      == called.ret[1]
             extractionResult == called.ret[2]
         IN  IF called.raised # NoException
             THEN [gen |-> [g EXCEPT !.pc = "raised"], command |-> None,
                   raised |-> called.raised]
             ELSE IF extractionResult # <<>>
             THEN Yield([g EXCEPT !.extractionResult = extractionResult],
                        "log_payload", donate_logs)
             ELSE IF /\ validation_.status_code.id = 0
                     /\ extractionResult = <<>>
                     /\ validation_.ddp_category # None
             THEN Yield(g, "log_valid", donate_logs)
             ELSE IF validation_.ddp_category = None
             THEN Yield(g, "log_retry", donate_logs)
             ELSE Yield(g, "log_prompt", donate_logs)
    ELSE Yield(g, "log_skipped", donate_logs)

\* consent_result arrives, were a PayloadString taken for a consent too
consent_answered_by_any_value(g, sent) ==
    IF sent.type \in {"PayloadJSON", "PayloadString"}
    THEN Yield([g EXCEPT !.consent_result = Some(sent)], "log_donated", donate_logs)
    ELSE Yield(g, "log_skipped_consent", donate_logs)

\* consent_result arrives
consent_answered(g, sent) ==
    IF sent.type = "PayloadJSON"
    THEN Yield([g EXCEPT !.consent_result = Some(sent)], "log_donated", donate_logs)
    ELSE Yield(g, "log_skipped_consent", donate_logs)

\* next(g) and g.send(sent): the frame at the next yield and the command
\* yielded; no command when the generator returned or raised
process_resume(g, sent) ==
    LET platform_name == platforms[g.index]
    IN  CASE g.pc = "unstarted" -> Yield(g, "log_start", donate_logs)
          [] g.pc = "log_start" -> for_platform(g, 1)
          [] g.pc = "log_prompt" ->
                Yield(g, "file_prompt",
                      render_donation_page(platform_name, prompt_file, g.progress))
          [] g.pc = "file_prompt" -> file_answered(g, sent)
          [] g.pc = "log_payload" ->
                ask_for_consent([g EXCEPT !.data = Some(g.extractionResult)])
          [] g.pc = "log_valid" ->
                ask_for_consent([g EXCEPT !.data = Some(return_empty_result_set)])
          [] g.pc = "log_retry" ->
                Yield(g, "retry",
                      render_donation_page(platform_name, retry_confirmation, g.progress))
          [] g.pc = "retry" ->
                IF sent.type = "PayloadTrue"
                THEN Yield(g, "log_prompt", donate_logs)
                ELSE Yield(g, "log_skipped_retry", donate_logs)
          [] g.pc = "log_skipped_retry" -> ask_for_consent(g)
          [] g.pc = "log_skipped" -> ask_for_consent(g)
          [] g.pc = "log_consent" ->
                Yield(g, "consent",
                      render_donation_page(platform_name, prompt_consent(g.data[1]),
                                           g.progress))
          [] g.pc = "consent" -> consent_answered(g, sent)
          [] g.pc = "log_donated" ->
                Yield(g, "donate", donate(platform_name, g.consent_result[1].value))
          [] g.pc = "donate" -> for_platform(g, g.index + 1)
          [] g.pc = "log_skipped_consent" -> for_platform(g, g.index + 1)
          [] g.pc = "end" ->
                [gen |-> [g EXCEPT !.pc = "returned"], command |-> None,
                 raised |-> NoException]

----------------------------------------------------------------------------
(* JSON trees tried on dict_denester: every tree of at most MaxNodes nodes  *)
(* over the keys and scalars below.                                         *)

TreeKeys == {<<"a">>, <<"b">>, <<"a", "-", "b">>}

TreeScalars == {<<"int", "1">>, <<"str", "x">>}

\* the ways to key n items with pairwise distinct keys
KeyLists(n) ==
    {ks \in [1..n -> TreeKeys] : \A i, j \in 1..n : i # j => ks[i] # ks[j]}

AllKeyLists == UNION {KeyLists(n) : n \in 0..Cardinality(TreeKeys)}

\* the trees with exactly n nodes, built from the forests (sequences of
\* trees) with n - 1 nodes in total
TreesFrom(forests) ==
    {ListNode(f) : f \in forests}
    \cup {DictNode([i \in DOMAIN p[2] |-> <<p[1][i], p[2][i]>>]) :
              p \in {q \in AllKeyLists \X forests : Len(q[1]) = Len(q[2])}}

RECURSIVE TreeTable(_, _, _, _, _)
\* <<the trees with 1 node, ..., the trees with n nodes>>, built size by size;
\* trees[j] are the trees with j nodes, forests[j + 1] the forests with j
TreeTable(k, n, trees, forests, scalars) ==
    IF k > n THEN trees
    ELSE LET sized  == IF k = 1
                       THEN {Leaf(v) : v \in scalars}
                            \cup {DictNode(<<>>), ListNode(<<>>)}
                       ELSE TreesFrom(forests[k])
             all    == Append(trees, sized)
             joined == UNION {{<<t>> \o f : t \in all[j], f \in forests[k - j + 1]} :
                                 j \in 1..k}
         IN  IF k = n THEN all
             ELSE TreeTable(k + 1, n, all, Append(forests, joined), scalars)

\* the trees with at most n nodes over the given scalars
TreesOver(scalars, n) == UNION Range(TreeTable(1, n, <<>>, <<{<<>>}>>, scalars))

\* the trees with at most n nodes
TreesUpTo(n) == TreesOver(TreeScalars, n)

\* the scalars of the trees tried on flatten_nested_dict
FlatScalars ==
    {PyInt(IntOf(1)), PyStr(<<"x">>), PyStr(<<"1", "2">>), PyStr(UrlText),
     PyStr(DateText), PyBool(TRUE), PyNone}

\* {"a": [1, {"b": "x"}]}
ExampleTree ==
    DictNode(<< <<(<<"a">>),
                  ListNode(<<Leaf(PyInt(IntOf(1))),
                             DictNode(<< <<(<<"b">>), Leaf(PyStr(<<"x">>))>> >>)>>)>> >>)

\* the scalars of the trees tried on find_items and find_all
FindScalars == {PyInt(IntOf(1)), PyInt(IntOf(2))}

\* {"b": [2], "a-b": 1}
DashKeyTree ==
    DictNode(<< <<(<<"b">>), ListNode(<<Leaf(PyInt(IntOf(2)))>>)>>,
                <<(<<"a", "-", "b">>), Leaf(PyInt(IntOf(1)))>> >>)

\* {"a": {"b": {"b": {"a": 2}}}, "b": {"a": 1}}: matches of "a" at depths 4 and 2
DepthsTree ==
    DictNode(<< <<(<<"a">>),
                  DictNode(<< <<(<<"b">>),
                      DictNode(<< <<(<<"b">>),
                          DictNode(<< <<(<<"a">>), Leaf(PyInt(IntOf(2)))>> >>)>> >>)>> >>)>>,
                <<(<<"b">>), DictNode(<< <<(<<"a">>), Leaf(PyInt(IntOf(1)))>> >>)>> >>)

\* the trees denested and then searched
FindTrees(n) == TreesOver(FindScalars, n) \cup {DashKeyTree, DepthsTree}

Asd == <<"a", "s", "d">>

\* the record of the docstring of find_items:
\* asd-asd-asd-asd-asd-asd: 1, asd-asd: 2, qwe: 3
DocstringRecord ==
    << <<py_join(<<Separator>>, <<Asd, Asd, Asd, Asd, Asd, Asd>>), PyInt(IntOf(1))>>,
       <<py_join(<<Separator>>, <<Asd, Asd>>), PyInt(IntOf(2))>>,
       <<(<<"q", "w", "e">>), PyInt(IntOf(3))>> >>

\* the records handed to find_items and find_all as they are
RawRecords == {DocstringRecord}

\* the values of key_to_match tried
Tokens == {<<"a">>, <<"b">>, <<"a", "-", "b">>, <<".">>, <<"(">>, Asd}

\* a + n for a small n >= 0
IntPlus(a, n) == <<a[1] + ((a[2] + n) \div Day), (a[2] + n) % Day>>

\* a - 1
IntPred(a) == IF a[2] = 0 THEN <<a[1] - 1, Day - 1>> ELSE <<a[1], a[2] - 1>>

\* "946684800"
Year2000Text == <<"9", "4", "6", "6", "8", "4", "8", "0", "0">>

\* "2020-01-01T10:00:00Z"
IsoText == DateText \o <<"T", "1", "0", ":", "0", "0", ":", "0", "0", "Z">>

\* the values of the lists tried on is_epoch and is_isoformat
SampleValues ==
    {PyInt(IntPred(year2000)), PyInt(year2000), PyInt(year2040), PyInt(IntPlus(year2040, 1)),
     PyStr(Year2000Text), PyStr(DateText), PyStr(IsoText), PyNone}

\* the lists tried, and a value that is no list
SampleLists(n) == {PyList(l) : l \in SeqsUpTo(SampleValues, n)} \cup {PyNone}

\* the values of check_minimum tried
SampleSizes(n) == (0 - 1)..(n + 1)

\* 253402300800, the first second of the year 10000
Year10000 == IntLiteral(<<"2", "5", "3", "4", "0", "2", "3", "0", "0", "8", "0", "0">>)

\* the timestamps tried on epoch_to_iso
Timestamps ==
    {PyInt(<<0, 0>>), PyInt(IntPred(<<0, 0>>)), PyInt(IntPred(year2000)), PyInt(year2000),
     PyInt(year2040), PyInt(IntPred(Year10000)), PyInt(Year10000),
     PyStr(Year2000Text), PyStr(<<" ", "1", "2", " ">>), PyStr(<<"a", "b", "c">>),
     PyStr(<<>>), PyBool(TRUE), PyNone, PyList(<<PyInt(<<0, 1>>)>>)}

\* {"a_b": {"a": 1}}: a key that contains the separator of scanfiles.py
UnderscoreKeyTree ==
    DictNode(<<<<<<"a", "_", "b">>, DictNode(<<<<<<"a">>, Leaf(<<"int", "1">>)>>>>)>>>>)

\* {"b": [{"a": 1}], "a": "x"}: keys out of order, a dict in a list
UnsortedTree ==
    DictNode(<<<<<<"b">>, ListNode(<<DictNode(<<<<<<"a">>, Leaf(<<"int", "1">>)>>>>)>>)>>,
               <<<<"a">>, Leaf(<<"str", "x">>)>>>>)

\* the first item handed to both denesters
TwinInputs(n) == TreesUpTo(n) \cup {UnderscoreKeyTree, UnsortedTree}

\* the items handed to them after the first
LaterItems == {UnsortedTree, Leaf(<<"str", "x">>), DictNode(<<>>)}

\* the trees tried on flatten_nested_dict
FlatInputs(n) == TreesOver(FlatScalars, n) \cup {ExampleTree}

----------------------------------------------------------------------------
(* Inputs *)

Entry(name, suffix) == [name |-> name, suffix |-> suffix]

\* archive entries tried per platform: known files, an unknown file of a
\* selected suffix, a file the suffix filter drops
ArchiveEntries(p) ==
    IF p = "instagram"
    THEN {Entry("followers.json", ".json"), Entry("following.json", ".json"),
          Entry("start_here.html", ".html"), Entry("photo.jpg", ".jpg")}
    ELSE IF p = "facebook"
    THEN {Entry("friends.json", ".json"), Entry("comments.json", ".json"),
          Entry("pokes.json", ".json"), Entry("notifications.json", ".json"),
          Entry("photo.jpg", ".jpg")}
    ELSE {Entry("account.js", ".js"), Entry("like.js", ".js"),
          Entry("tweets.js", ".js"), Entry("profile.js", ".js"),
          Entry("README", "")}

Archives(p) ==
    {[kind |-> "zip", namelist |-> l] : l \in SeqsUpTo(ArchiveEntries(p), MaxEntries)}
    \cup {[kind |-> k, namelist |-> <<>>] : k \in {"BadZipFile", "OSError"}}

NoArchive == [kind |-> "none", namelist |-> <<>>]

\* a list of 20 known files: one match scores exactly 5
Padded20 ==
    <<"a.json", "p02.json", "p03.json", "p04.json", "p05.json", "p06.json",
      "p07.json", "p08.json", "p09.json", "p10.json", "p11.json", "p12.json",
      "p13.json", "p14.json", "p15.json", "p16.json", "p17.json", "p18.json",
      "p19.json", "p20.json">>

KnownFileLists ==
    {<<>>, <<"a.json">>, <<"b.json">>, <<"a.json", "b.json">>, Padded20}

\* registries of one or two fingerprints over KnownFileLists
SmallRegistries ==
    {<<DDPCategory("first", "JSON", "EN", k)>> : k \in KnownFileLists}
    \cup {<<DDPCategory("first", "JSON", "EN", k1),
            DDPCategory("second", "HTML", "NL", k2)>> :
              k1 \in KnownFileLists, k2 \in KnownFileLists}

\* what a ValidateInput is constructed from, and the entry names tried on it
Fixtures ==
    {[status_codes |-> Instagram_STATUS_CODES, ddp_categories |-> r,
      names |-> {"a.json", "b.json", "c.txt"}] : r \in SmallRegistries}
    \cup {[status_codes |-> Instagram_STATUS_CODES,
           ddp_categories |-> Instagram_DDP_CATEGORIES,
           names |-> {"followers.json", "following.json", "start_here.html"}],
          [status_codes |-> YouTube_STATUS_CODES,
           ddp_categories |-> YouTube_DDP_CATEGORIES,
           names |-> {"my-comments.html", "archive_browser.html",
                      "watch-history.html"}]}

NamesFor(obj) ==
    UNION {f.names : f \in {g \in Fixtures : g.ddp_categories = obj.ddp_categories}}

\* the second denester has not been called
ScanIdle ==
    /\ scan_new = <<>>
    /\ spc = "idle"
    /\ item_no = 0

\* process has not been called
FlowIdle ==
    /\ gen = <<>>
    /\ ui = <<>>

\* none of the operations modelled after the timestamp functions has acted
RestIdle ==
    /\ ScanIdle
    /\ heap = <<>>
    /\ threads = <<>>
    /\ FlowIdle

\* no flattening, lookup or timestamp call has been made
OthersSilent ==
    /\ json_items = <<>>
    /\ fpc = "idle"
    /\ token = <<>>
    /\ found = <<>>
    /\ qpc = "idle"
    /\ t_call = "idle"
    /\ t_args = <<>>
    /\ t_ret = <<>>

\* no flattening, lookup or timestamp call has been made
OthersIdle ==
    /\ RestIdle
    /\ json_items = <<>>
    /\ fpc = "idle"
    /\ token = <<>>
    /\ found = <<>>
    /\ qpc = "idle"
    /\ t_call = "idle"
    /\ t_args = <<>>
    /\ t_ret = <<>>

----------------------------------------------------------------------------
(* Specification SpecInfer: one ValidateInput object, constructed over any  *)
(* registry and then asked to classify any number of listings.              *)

InitInfer ==
    /\ OthersIdle
    /\ validation = None
    /\ call_files = <<>>
    /\ call_props = <<>>
    /\ call_ret = "none"
    /\ platform = "none"
    /\ zfile = NoArchive
    /\ pc = "idle"
    /\ inp = NoTree
    /\ new = <<>>
    /\ dpc = "idle"

Construct(f) ==
    /\ validation' = Some(ValidateInput(f.status_codes, f.ddp_categories))
    /\ call_files' = <<>>
    /\ call_props' = <<>>
    /\ call_ret' = "none"
    /\ UNCHANGED <<platform, zfile, pc>>
    /\ UNCHANGED dVars
    /\ UNCHANGED xVars
    /\ UNCHANGED wVars

\* the listings tried on the object
Listings ==
    IF validation = None THEN {} ELSE SeqsUpTo(NamesFor(validation[1]), MaxListing)

Infer(l) ==
    /\ validation # None
    /\ LET r == infer_ddp_category(validation[1], l)
       IN  /\ validation' = Some(r.self)
           /\ call_files' = l
           /\ call_props' = r.prop_category
           /\ call_ret' = r.ret
    /\ UNCHANGED <<platform, zfile, pc>>
    /\ UNCHANGED dVars
    /\ UNCHANGED xVars
    /\ UNCHANGED wVars

NextInfer ==
    \/ \E f \in Fixtures : Construct(f)
    \/ \E l \in Listings : Infer(l)

SpecInfer == InitInfer /\ [][NextInfer]_vars

----------------------------------------------------------------------------
(* Specification SpecValidate: one call of a platform's validate.           *)

InitValidate ==
    /\ OthersIdle
    /\ validation = None
    /\ call_files = <<>>
    /\ call_props = <<>>
    /\ call_ret = "none"
    /\ platform = "none"
    /\ zfile = NoArchive
    /\ pc = "idle"
    /\ inp = NoTree
    /\ new = <<>>
    /\ dpc = "idle"

\* the caller receives the validation object, or the exception
Validated(p, zf, r) ==
    /\ platform' = p
    /\ zfile' = zf
    /\ pc' = r.outcome
    /\ validation' = IF r.outcome = "returned" THEN Some(r.validation) ELSE None
    /\ call_files' = r.paths
    /\ call_props' = r.prop_category
    /\ call_ret' = r.ret
    /\ UNCHANGED dVars
    /\ UNCHANGED xVars
    /\ UNCHANGED wVars

InstagramValidate(zf) ==
    /\ pc = "idle"
    /\ Validated("instagram", zf, Instagram_validate(zf))

FacebookValidate(zf) ==
    /\ pc = "idle"
    /\ Validated("facebook", zf, Facebook_validate(zf))

TwitterValidate(zf) ==
    /\ pc = "idle"
    /\ Validated("twitter", zf, Twitter_validate(zf))

NextValidate ==
    \/ \E zf \in Archives("instagram") : InstagramValidate(zf)
    \/ \E zf \in Archives("facebook") : FacebookValidate(zf)
    \/ \E zf \in Archives("twitter") : TwitterValidate(zf)

SpecValidate == InitValidate /\ [][NextValidate]_vars

----------------------------------------------------------------------------
(* Specification SpecDenest: one call of dict_denester on any tree.         *)

InitDenest ==
    /\ OthersIdle
    /\ inp \in TreesUpTo(MaxNodes)
    /\ new = <<>>
    /\ dpc = "input"
    /\ validation = None
    /\ call_files = <<>>
    /\ call_props = <<>>
    /\ call_ret = "none"
    /\ platform = "none"
    /\ zfile = NoArchive
    /\ pc = "idle"

Denest ==
    /\ dpc = "input"
    /\ new' = dict_denester(inp)
    /\ dpc' = "done"
    /\ UNCHANGED <<inp, validation, call_files, call_props, call_ret, platform, zfile, pc>>
    /\ UNCHANGED xVars
    /\ UNCHANGED wVars

NextDenest == Denest

SpecDenest == InitDenest /\ [][NextDenest]_vars

----------------------------------------------------------------------------
(* Specification SpecFlatten: one JSON document, flattened by               *)
(* flatten_nested_dict as flatten_json calls it and by dict_denester.       *)

InitFlatten ==
    /\ RestIdle
    /\ inp \in FlatInputs(MaxFlatNodes)
    /\ new = <<>>
    /\ dpc = "input"
    /\ json_items = <<>>
    /\ fpc = "input"
    /\ token = <<>>
    /\ found = <<>>
    /\ qpc = "idle"
    /\ t_call = "idle"
    /\ t_args = <<>>
    /\ t_ret = <<>>
    /\ validation = None
    /\ call_files = <<>>
    /\ call_props = <<>>
    /\ call_ret = "none"
    /\ platform = "none"
    /\ zfile = NoArchive
    /\ pc = "idle"

\* json_items = flatten_nested_dict(json_obj, "toplevel", "", [])
Flatten ==
    /\ fpc = "input"
    /\ json_items' = flatten_nested_dict(inp, Toplevel, <<>>, <<>>)
    /\ fpc' = "done"
    /\ UNCHANGED <<validation, call_files, call_props, call_ret, platform, zfile, pc>>
    /\ UNCHANGED dVars
    /\ UNCHANGED qVars
    /\ UNCHANGED tVars
    /\ UNCHANGED wVars

NextFlatten ==
    \/ Flatten
    \/ Denest

SpecFlatten == InitFlatten /\ [][NextFlatten]_vars

----------------------------------------------------------------------------
(* Specification SpecFind: a record, denested from a JSON document or       *)
(* handed over as it is, or a value that is no dict, searched once by       *)
(* find_items or find_all.                                                  *)

InitFind ==
    /\ RestIdle
    /\ \/ inp \in FindTrees(MaxFindNodes) /\ new = <<>> /\ dpc = "input"
       \/ inp = NoTree /\ new \in RawRecords /\ dpc = "given"
       \/ inp = NoTree /\ new = <<>> /\ dpc = "no dict"
    /\ json_items = <<>>
    /\ fpc = "idle"
    /\ token = <<>>
    /\ found = <<>>
    /\ qpc = "idle"
    /\ t_call = "idle"
    /\ t_args = <<>>
    /\ t_ret = <<>>
    /\ validation = None
    /\ call_files = <<>>
    /\ call_props = <<>>
    /\ call_ret = "none"
    /\ platform = "none"
    /\ zfile = NoArchive
    /\ pc = "idle"

\* the argument d of the search
SearchedRecord == IF dpc = "no dict" THEN NotADict ELSE PyDict(new)

\* the caller receives the result, or the exception
Searched(function, key_to_match, r) ==
    /\ token' = key_to_match
    /\ found' = r.out
    /\ qpc' = IF r.raised = "none" THEN function ELSE "raised"
    /\ UNCHANGED <<validation, call_files, call_props, call_ret, platform, zfile, pc>>
    /\ UNCHANGED dVars
    /\ UNCHANGED fVars
    /\ UNCHANGED tVars
    /\ UNCHANGED wVars

FindItems(key_to_match) ==
    /\ dpc \in {"done", "given", "no dict"}
    /\ qpc = "idle"
    /\ Searched("find_items", key_to_match, find_items(SearchedRecord, key_to_match))

FindAll(key_to_match) ==
    /\ dpc \in {"done", "given", "no dict"}
    /\ qpc = "idle"
    /\ Searched("find_all", key_to_match, find_all(SearchedRecord, key_to_match))

NextFind ==
    \/ Denest
    \/ \E key_to_match \in Tokens : FindItems(key_to_match)
    \/ \E key_to_match \in Tokens : FindAll(key_to_match)

SpecFind == InitFind /\ [][NextFind]_vars

----------------------------------------------------------------------------
(* Specification SpecTime: one call of a timestamp function.                *)

InitTime ==
    /\ RestIdle
    /\ t_call = "idle"
    /\ t_args = <<>>
    /\ t_ret = <<>>
    /\ json_items = <<>>
    /\ fpc = "idle"
    /\ token = <<>>
    /\ found = <<>>
    /\ qpc = "idle"
    /\ inp = NoTree
    /\ new = <<>>
    /\ dpc = "idle"
    /\ validation = None
    /\ call_files = <<>>
    /\ call_props = <<>>
    /\ call_ret = "none"
    /\ platform = "none"
    /\ zfile = NoArchive
    /\ pc = "idle"

\* the caller receives the value returned, or the exception
Called(function, args, outcome) ==
    /\ t_call' = function
    /\ t_args' = args
    /\ t_ret' = outcome
    /\ UNCHANGED <<validation, call_files, call_props, call_ret, platform, zfile, pc>>
    /\ UNCHANGED dVars
    /\ UNCHANGED fVars
    /\ UNCHANGED qVars
    /\ UNCHANGED wVars

IsEpoch(datetime_int, check_minimum) ==
    /\ t_call = "idle"
    /\ Called("is_epoch", <<datetime_int, check_minimum>>,
              is_epoch(datetime_int, check_minimum))

IsIsoformat(datetime_str, check_minimum, date_only) ==
    /\ t_call = "idle"
    /\ Called("is_isoformat", <<datetime_str, check_minimum, date_only>>,
              is_isoformat(datetime_str, check_minimum, date_only))

EpochToIso(epoch_timestamp) ==
    /\ t_call = "idle"
    /\ Called("helpers.epoch_to_iso", <<epoch_timestamp>>,
              helpers_epoch_to_iso(epoch_timestamp))

StrictEpochToIso(epoch_timestamp) ==
    /\ t_call = "idle"
    /\ Called("stringparse.epoch_to_iso", <<epoch_timestamp>>,
              stringparse_epoch_to_iso(epoch_timestamp))

\* the inputs a call may take: calls are made from the idle state only
WhenIdle(inputs) == IF t_call = "idle" THEN inputs ELSE {}

NextTime ==
    \/ \E l \in WhenIdle(SampleLists(MaxSample)), n \in SampleSizes(MaxSample) : IsEpoch(l, n)
    \/ \E l \in WhenIdle(SampleLists(MaxSample)), n \in SampleSizes(MaxSample), date_only \in BOOLEAN :
           IsIsoformat(l, n, date_only)
    \/ \E x \in WhenIdle(Timestamps) : EpochToIso(x)
    \/ \E x \in WhenIdle(Timestamps) : StrictEpochToIso(x)

SpecTime == InitTime /\ [][NextTime]_vars

----------------------------------------------------------------------------
(* Specification SpecTwin: a caller that hands its items, one after the     *)
(* other, to helpers.dict_denester and to scanfiles.dict_denester, as the   *)
(* loops of twitter.py (line 276) and youtube.py (line 125) do.             *)

InitTwin ==
    /\ inp \in TwinInputs(MaxTwinNodes)
    /\ new = <<>>
    /\ dpc = "input"
    /\ scan_new = <<>>
    /\ spc = "input"
    /\ item_no = 1
    /\ heap = <<>>
    /\ threads = <<>>
    /\ FlowIdle
    /\ json_items = <<>>
    /\ fpc = "idle"
    /\ token = <<>>
    /\ found = <<>>
    /\ qpc = "idle"
    /\ t_call = "idle"
    /\ t_args = <<>>
    /\ t_ret = <<>>
    /\ validation = None
    /\ call_files = <<>>
    /\ call_props = <<>>
    /\ call_ret = "none"
    /\ platform = "none"
    /\ zfile = NoArchive
    /\ pc = "idle"

\* d = scanfiles.dict_denester(item)
ScanDenest ==
    /\ spc = "input"
    /\ scan_new' = scan_dict_denester(inp)
    /\ spc' = "done"
    /\ UNCHANGED <<item_no, heap, threads>>
    /\ UNCHANGED pVars
    /\ UNCHANGED vVars
    /\ UNCHANGED dVars
    /\ UNCHANGED xVars

\* the loop of the caller takes its next item; the dicts returned for the
\* earlier item are still there
NextItem(item) ==
    /\ dpc = "done"
    /\ spc = "done"
    /\ item_no < MaxItems
    /\ inp' = item
    /\ dpc' = "input"
    /\ spc' = "input"
    /\ item_no' = item_no + 1
    /\ UNCHANGED <<new, scan_new, heap, threads>>
    /\ UNCHANGED pVars
    /\ UNCHANGED vVars
    /\ UNCHANGED xVars

NextTwin ==
    \/ Denest
    \/ ScanDenest
    \/ \E item \in LaterItems : NextItem(item)

SpecTwin == InitTwin /\ [][NextTwin]_vars

----------------------------------------------------------------------------
(* Specification SpecExtract: one call of extract_file_from_zip.            *)

\* the entries tried: like.js at the top, in a directory, as a directory,
\* encrypted; tweet.js in a directory and, empty, at the top
ZipEntries ==
    {[filename |-> <<"like.js">>, data |-> <<1>>, read |-> "ok"],
     [filename |-> <<"data", "/", "like.js">>, data |-> <<2>>, read |-> "ok"],
     [filename |-> <<"data", "/", "tweet.js">>, data |-> <<3>>, read |-> "ok"],
     [filename |-> <<"like.js", "/">>, data |-> <<>>, read |-> "ok"],
     [filename |-> <<"x", "/", "like.js">>, data |-> <<4>>, read |-> "RuntimeError"],
     [filename |-> <<"tweet.js">>, data |-> <<>>, read |-> "ok"]}

\* the archives tried
ZipFiles(n) ==
    {[kind |-> "zip", entries |-> l] : l \in SeqsUpTo(ZipEntries, n)}
    \cup {[kind |-> k, entries |-> <<>>] : k \in {"BadZipFile", "OSError"}}

\* the names asked for
FilesToExtract == {"like.js", "tweet.js", "following.js"}

InitExtract == InitTime

\* b = unzipddp.extract_file_from_zip(twitter_zip, "like.js")
ExtractFileFromZip(zfile_arg, file_to_extract) ==
    /\ t_call = "idle"
    /\ Called("extract_file_from_zip", <<zfile_arg, file_to_extract>>,
              extract_file_from_zip(zfile_arg, file_to_extract))

NextExtract ==
    \E zf \in WhenIdle(ZipFiles(MaxZipEntries)), f \in FilesToExtract : ExtractFileFromZip(zf, f)

SpecExtract == InitExtract /\ [][NextExtract]_vars

----------------------------------------------------------------------------
(* Specification SpecSplit: one call of split_dataframe.                    *)

\* the tables tried: every sequence of at most n rows, each one of two rows
Tables(n) == {DataFrame(RangeIndex(Len(rows)), rows) : rows \in SeqsUpTo({"r", "s"}, n)}

\* the values of row_count tried
RowCounts(n) == 0..(n + 1)

InitSplit == InitTime

\* df_list = helpers.split_dataframe(df, row_count)
SplitDataframe(df, row_count) ==
    /\ t_call = "idle"
    /\ Called("split_dataframe", <<df, row_count>>, split_dataframe(df, row_count))

NextSplit ==
    \E df \in WhenIdle(Tables(MaxRows)), row_count \in RowCounts(MaxRows) :
        SplitDataframe(df, row_count)

SpecSplit == InitSplit /\ [][NextSplit]_vars

----------------------------------------------------------------------------
(* Specification SpecConvert: one call of convert_datetime_str.             *)

\* ten times the value v
TenOf(v) == [i \in 1..10 |-> v]

\* lists longer than the sample: ten values of one format and an eleventh
\* that is not of it
LongLists ==
    {PyList(TenOf(PyStr(IsoText)) \o <<PyStr(DateText)>>),
     PyList(TenOf(PyStr(DateText)) \o <<PyNone>>),
     PyList(TenOf(PyInt(year2000)) \o <<PyStr(DateText)>>),
     PyList(SubSeq(TenOf(PyInt(year2000)), 1, 9) \o <<PyStr(DateText), PyInt(year2000)>>)}

\* what pandas.to_datetime may do
PandasVerdicts == {"ok", "ValueError", "TypeError", "OverflowError", "KeyError"}

InitConvert == InitTime

\* out = convert_datetime_str(datetime_str)
ConvertDatetimeStr(datetime_str, pandas) ==
    /\ t_call = "idle"
    /\ Called("convert_datetime_str", <<datetime_str, pandas>>,
              convert_datetime_str(datetime_str, pandas))

NextConvert ==
    \E l \in WhenIdle(SampleLists(MaxSample) \cup LongLists), pandas \in PandasVerdicts :
        ConvertDatetimeStr(l, pandas)

SpecConvert == InitConvert /\ [][NextConvert]_vars

----------------------------------------------------------------------------
(* Specification SpecShared: two validate calls of port/instagram.py on any *)
(* two archives, their statements interleaved in any order.                 *)

SharedArchives(n) ==
    {[kind |-> "zip", namelist |-> l] : l \in SeqsUpTo(ArchiveEntries("instagram"), n)}
    \cup {[kind |-> k, namelist |-> <<>>] : k \in {"BadZipFile", "OSError"}}

NewCall(zf) ==
    [pc |-> "called", zf |-> zf, validation |-> <<>>, paths |-> <<>>,
     prop_category |-> <<>>]

InitShared ==
    /\ heap = ModuleHeap
    /\ threads \in {<<NewCall(a), NewCall(b)>> :
                        a, b \in SharedArchives(MaxSharedEntries)}
    /\ ScanIdle
    /\ FlowIdle
    /\ OthersSilent
    /\ validation = None
    /\ call_files = <<>>
    /\ call_props = <<>>
    /\ call_ret = "none"
    /\ platform = "none"
    /\ zfile = NoArchive
    /\ pc = "idle"
    /\ inp = NoTree
    /\ new = <<>>
    /\ dpc = "idle"

\* a statement of one call that touches its own objects only
LocalStep(t, call) ==
    /\ threads' = [threads EXCEPT ![t] = call]
    /\ UNCHANGED heap
    /\ UNCHANGED <<vVars, dVars, xVars, sVars, pVars>>

Construct1(t) ==
    /\ threads[t].pc = "called"
    /\ LocalStep(t, ConstructStep(threads[t]))

ListArchive(t) ==
    /\ threads[t].pc = "constructed"
    /\ LocalStep(t, ListStep(threads[t]))

Score(t) ==
    /\ threads[t].pc = "listed"
    /\ LocalStep(t, ScoreStep(heap, threads[t]))

InferCategory(t) ==
    /\ threads[t].pc = "scored"
    /\ heap' = InferStep(heap, threads[t]).heap
    /\ threads' = [threads EXCEPT ![t] = InferStep(heap, threads[t]).call]
    /\ UNCHANGED <<vVars, dVars, xVars, sVars, pVars>>

SetStatus(t) ==
    /\ threads[t].pc = "inferred"
    /\ LocalStep(t, StatusStep(heap, threads[t]))

SetBadZipFile(t) ==
    /\ threads[t].pc = "BadZipFile"
    /\ LocalStep(t, BadZipFileStep(threads[t]))

NextShared ==
    \E t \in {1, 2} :
        \/ Construct1(t)
        \/ ListArchive(t)
        \/ Score(t)
        \/ InferCategory(t)
        \/ SetStatus(t)
        \/ SetBadZipFile(t)

SpecShared == InitShared /\ [][NextShared]_vars

----------------------------------------------------------------------------
(* Specifications SpecProcess and SpecProcessFair: one run of process, the  *)
(* caller resuming the generator after every command, with any payload      *)
(* after a donation page.  ui is what the caller has seen:                  *)
(*   command   the command yielded last,                                    *)
(*   page      the donation page rendered last, answer the payload sent     *)
(*             for it (None until it is answered),                          *)
(*   before    the donation page rendered before that one and its answer,   *)
(*   donated   the donations yielded under a platform's name, in order,     *)
(*   end_pages how many end pages were yielded,                             *)
(*   skipped   the platforms whose file prompt or consent prompt was        *)
(*             answered with a skip,                                        *)
(*   uploads   how many files were submitted for the platform of page.      *)
(* A user submits at most MaxUploads files per platform.                    *)

PayloadString(value) == [type |-> "PayloadString", value |-> value]

PayloadJSON(value) == [type |-> "PayloadJSON", value |-> value]

PayloadTrue == [type |-> "PayloadTrue"]

PayloadFalse == [type |-> "PayloadFalse"]

\* the document an extraction function reads first
DocumentOf(platform_name) ==
    IF platform_name = "Twitter" THEN Entry("like.js", ".js")
    ELSE IF platform_name = "Instagram" THEN Entry("ads_viewed.json", ".json")
    ELSE IF platform_name = "Facebook" THEN Entry("recently_viewed.json", ".json")
    ELSE Entry("user_data.json", ".json")

\* the first known files of the platform's fingerprint, four at most
KnownEntries(platform_name) ==
    LET known == zip_DDP_CATEGORIES(platform_name)[1].known_files[1]
        suffix == IF platform_name = "Twitter" THEN ".js" ELSE ".json"
    IN  [i \in 1..(IF Len(known) < 4 THEN Len(known) ELSE 4) |-> Entry(known[i], suffix)]

\* the files tried at a file prompt: no zip at all, a zip of something else,
\* a zip holding the document alone, a zip of the platform
Uploads(platform_name) ==
    {[zf |-> [kind |-> "BadZipFile", namelist |-> <<>>], documents |-> "missing"],
     [zf |-> [kind |-> "zip", namelist |-> <<Entry("readme.txt", ".txt")>>],
      documents |-> "missing"]}
    \cup {[zf |-> [kind |-> "zip", namelist |-> l], documents |-> d] :
            l \in {<<DocumentOf(platform_name)>>,
                   KnownEntries(platform_name) \o <<DocumentOf(platform_name)>>},
            d \in {"rows", "no_rows", "missing"}}

\* the JSON texts a consent form is answered with
ConsentValues == {[json |-> "[]"], [json |-> "[tables]"]}

\* what a page can be answered with
Payloads(platform_name) ==
    {PayloadString(f) : f \in Uploads(platform_name)}
    \cup {PayloadJSON(v) : v \in ConsentValues}
    \cup {PayloadTrue, PayloadFalse}

IsDonationPage(command) ==
    command.type = "CommandUIRender" /\ command.page.kind = "PropsUIPageDonation"

\* the prompt is answered with a skip
Skips(page, sent) ==
    \/ page.body.prompt = "PropsUIPromptFileInput" /\ sent.type # "PayloadString"
    \/ page.body.prompt = "PropsUIPromptConsentForm" /\ sent.type # "PayloadJSON"

\* the caller's record once  sent  has gone in and  r  has come out
Seen(u, sent, r) ==
    LET answering == u.command # None /\ IsDonationPage(u.command[1])
        answered  == IF answering
                     THEN [u EXCEPT !.answer = Some(sent),
                                    !.skipped = IF Skips(u.page[1], sent)
                                                THEN @ \cup {u.page[1].platform}
                                                ELSE @,
                                    !.uploads = IF sent.type = "PayloadString" /\
                                                   u.page[1].body.prompt =
                                                       "PropsUIPromptFileInput"
                                                THEN @ + 1 ELSE @]
                     ELSE u
        command   == r.command[1]
    IN  IF r.command = None THEN [answered EXCEPT !.raised = r.raised]
        ELSE IF IsDonationPage(command)
        THEN [answered EXCEPT
                !.command = r.command,
                !.page = Some(command.page),
                !.answer = None,
                !.before = IF answered.page = None THEN None
                           ELSE Some([page |-> answered.page[1],
                                      answer |-> answered.answer]),
                !.uploads = IF answered.page # None /\
                               answered.page[1].platform = command.page.platform
                            THEN @ ELSE 0]
        ELSE IF command.type = "CommandUIRender"
        THEN [answered EXCEPT !.command = r.command, !.end_pages = @ + 1]
        ELSE IF InList(command.key, platforms)
        THEN [answered EXCEPT
                !.command = r.command,
                !.donated = Append(@, [key |-> command.key,
                                       json_string |-> command.json_string])]
        ELSE [answered EXCEPT !.command = r.command]

InitProcess ==
    /\ gen = NewGenerator
    /\ ui = [command |-> None, page |-> None, answer |-> None, before |-> None,
             donated |-> <<>>, end_pages |-> 0, skipped |-> {}, uploads |-> 0,
             raised |-> NoException]
    /\ ScanIdle
    /\ heap = <<>>
    /\ threads = <<>>
    /\ OthersSilent
    /\ validation = None
    /\ call_files = <<>>
    /\ call_props = <<>>
    /\ call_ret = "none"
    /\ platform = "none"
    /\ zfile = NoArchive
    /\ pc = "idle"
    /\ inp = NoTree
    /\ new = <<>>
    /\ dpc = "idle"

\* g.send(sent), or next(g) for the first command
Resume(sent) ==
    /\ gen' = process_resume(gen, sent).gen
    /\ ui' = Seen(ui, sent, process_resume(gen, sent))
    /\ UNCHANGED <<vVars, dVars, xVars, sVars, heap, threads>>

\* g = process(sessionId); next(g)
Start ==
    /\ gen.pc = "unstarted"
    /\ Resume(PayloadFalse)

\* the caller has carried out a donation or shown the end page and resumes
\* the generator; the generator does not look at what is sent
Continue ==
    /\ gen.pc \notin {"unstarted", "returned", "raised"}
    /\ ~IsDonationPage(ui.command[1])
    /\ Resume(PayloadFalse)

\* the user answers the donation page
Respond(sent) ==
    /\ gen.pc \notin {"unstarted", "returned", "raised"}
    /\ IsDonationPage(ui.command[1])
    /\ (sent.type = "PayloadString" /\ gen.pc = "file_prompt") => ui.uploads < MaxUploads
    /\ Resume(sent)

\* the payloads tried on the page shown
PayloadsNow ==
    IF gen.pc \in {"file_prompt", "retry", "consent"}
    THEN Payloads(platforms[gen.index]) ELSE {}

NextProcess ==
    \/ Start
    \/ Continue
    \/ \E sent \in PayloadsNow : Respond(sent)

SpecProcess == InitProcess /\ [][NextProcess]_vars

\* the caller resumes the generator after every command and the user
\* answers every page
SpecProcessFair == SpecProcess /\ WF_vars(NextProcess)

----------------------------------------------------------------------------
(* Vocabulary of the properties *)

\* the ValidateInput object under consideration
Obj == validation[1]

\* an infer_ddp_category call on the object has returned
Returned == validation # None /\ call_ret \in {"True", "False"}

\* equality of fractions
FracEq(a, b) == a[1] * b[2] = b[1] * a[2]

\* |set(entry_names) \cap known_files| / |known_files| * 100
SetScore(files, known) ==
    <<Cardinality(Range(files) \cap Range(known)) * 100, Cardinality(Range(known))>>

\* the score the code gives fingerprint j of the registry cats for files
CodeScore(cats, j, files) == proportion(files, cats[j].known_files[1])

\* no fingerprint of object v scores 5 or more on files
AllBelow5(v, files) ==
    \A j \in DOMAIN v[1].ddp_categories :
        /\ Len(v[1].ddp_categories[j].known_files[1]) > 0
        /\ CodeScore(v[1].ddp_categories, j, files)[1]
               < 5 * CodeScore(v[1].ddp_categories, j, files)[2]

\* the rearrangements of a list
Perms(l) ==
    {[i \in DOMAIN l |-> l[f[i]]] :
        f \in {g \in [DOMAIN l -> DOMAIN l] :
                  \A a, b \in DOMAIN l : a # b => g[a] # g[b]}}

----------------------------------------------------------------------------
(* C1: for every listing validate passes to infer_ddp_category (base names  *)
(* may repeat), the score of each fingerprint f is                          *)
(* |set(entry_names) \cap f.known_files| / |f.known_files| * 100, the call  *)
(* returns True exactly when the maximal such score is >= 5, and then       *)
(* ddp_category is a fingerprint of maximal score.                          *)
(* The code counts every occurrence of a known name, so this is violated.   *)
C1_ScoreIsSetProportion ==
    (pc = "returned" /\ zfile.kind = "zip") =>
        LET cats == Obj.ddp_categories
            sc(j) == SetScore(call_files, cats[j].known_files[1])
        IN  /\ \A j \in DOMAIN cats :
                   /\ DictHas(call_props, cats[j].id)
                   /\ FracEq(DictGet(call_props, cats[j].id), sc(j))
            /\ (call_ret = "True") <=> (\E j \in DOMAIN cats : sc(j)[1] >= 5 * sc(j)[2])
            /\ (call_ret = "True") =>
                   \E j \in DOMAIN cats :
                       /\ Obj.ddp_category = cats[j]
                       /\ \A k \in DOMAIN cats : ~ScoreLess(sc(j), sc(k))

(* C2: when several fingerprints reach the same maximal score >= 5, the     *)
(* one earliest in ddp_categories is selected (registries with distinct     *)
(* category ids).                                                           *)
C2_EarliestMaximalWins ==
    (validation # None /\ call_ret = "True") =>
        LET cats     == Obj.ddp_categories
            maximal  == {j \in DOMAIN cats :
                            \A k \in DOMAIN cats :
                                ~ScoreLess(CodeScore(cats, j, call_files),
                                           CodeScore(cats, k, call_files))}
            earliest == CHOOSE j \in maximal : \A k \in maximal : j <= k
        IN  Obj.ddp_category = cats[earliest]

\* the YouTube registry on a listing that scores json_en and html_en equally
C2_Witness ==
    /\ validation # None
    /\ Obj.ddp_categories = YouTube_DDP_CATEGORIES
    /\ call_files = <<"my-comments.html">>
    /\ call_ret = "True"
    /\ FracEq(DictGet(call_props, Some("json_en")), DictGet(call_props, Some("html_en")))
    /\ Obj.ddp_category.id = Some("json_en")

(* C3: the first infer_ddp_category call on a freshly constructed           *)
(* ValidateInput returns False and leaves ddp_category.id None whenever     *)
(* every fingerprint scores below 5 (no match, empty listing included).     *)
C3_FreshBelowThresholdUnrecognized ==
    [][(/\ validation # None
        /\ call_ret = "none"
        /\ call_ret' # "none"
        /\ AllBelow5(validation', call_files'))
       => (/\ call_ret' = "False"
           /\ validation'[1].ddp_category.id = None)]_vars

\* a fingerprint matched, but below the threshold, and nothing was selected
C3_Witness ==
    /\ validation # None
    /\ call_ret = "False"
    /\ Obj.ddp_category.id = None
    /\ \E i \in DOMAIN call_props : call_props[i][2][1] > 0
    /\ AllBelow5(validation, call_files)

(* C4: after any sequence of infer_ddp_category calls on one object, the    *)
(* category held after infer_ddp_category(L) is the one a fresh object over *)
(* the same registry holds after infer_ddp_category(L); in particular it is *)
(* absent after a call that returned False.                                 *)
(* The code leaves the category of an earlier call in place.                *)
C4_CategoryDependsOnlyOnListing ==
    Returned =>
        Obj.ddp_category =
            infer_ddp_category(ValidateInput(Obj.status_codes, Obj.ddp_categories),
                               call_files).self.ddp_category

(* C5: every permutation of the listing gives the same result: the same     *)
(* outcome and the same selected fingerprint.                               *)
C5_PermutationInvariant ==
    (validation # None /\ call_ret # "none") =>
        \A l \in Perms(call_files) :
            /\ infer_ddp_category(Obj, l).ret = call_ret
            /\ infer_ddp_category(Obj, l).self.ddp_category = Obj.ddp_category

\* a recognized listing in which an unknown name precedes a known one
C5_Witness ==
    /\ validation # None
    /\ call_ret = "True"
    /\ Len(call_files) >= 2
    /\ \E j \in DOMAIN Obj.ddp_categories :
           /\ ~InList(call_files[1], Obj.ddp_categories[j].known_files[1])
           /\ InList(call_files[2], Obj.ddp_categories[j].known_files[1])
           /\ Obj.ddp_category = Obj.ddp_categories[j]

(* C6 as stated: with the Instagram registry a listing of followers.json    *)
(* and following.json scores 2/31 * 100 and is Recognized.                  *)
(* The registry has 32 known files, so the score is 2/32 * 100.             *)
C6_ScoreIsTwoThirtyFirsts ==
    (/\ validation # None
     /\ Obj.ddp_categories = Instagram_DDP_CATEGORIES
     /\ call_files = <<"followers.json", "following.json">>)
    => (/\ call_ret = "True"
        /\ FracEq(call_props[1][2], <<2 * 100, 31>>))

(* C6 amended: the threshold is inclusive and relative to the size of the   *)
(* fingerprint: a score of exactly 5 is Recognized; with the Instagram      *)
(* registry (one fingerprint of 32 known files) followers.json and          *)
(* following.json score 2/32 * 100 = 6.25 and are Recognized as json_en,    *)
(* and a single known file scores 1/32 * 100 = 3.125 and is Unrecognized.   *)
C6_InclusiveThreshold ==
    Returned =>
        /\ (\E i \in DOMAIN call_props : call_props[i][2][1] = 5 * call_props[i][2][2])
               => (call_ret = "True")
        /\ (Obj.ddp_categories = Instagram_DDP_CATEGORIES) =>
               /\ Len(Obj.ddp_categories) = 1
               /\ Len(Obj.ddp_categories[1].known_files[1]) = 32
               /\ (Len(call_files) = 2
                   /\ Range(call_files) = {"followers.json", "following.json"})
                      => (/\ FracEq(call_props[1][2], <<625, 100>>)
                          /\ call_ret = "True"
                          /\ Obj.ddp_category.id = Some("json_en"))
               /\ (Len(call_files) = 1
                   /\ call_files[1] \in {"followers.json", "following.json"})
                      => (/\ FracEq(call_props[1][2], <<3125, 1000>>)
                          /\ call_ret = "False")

\* followers.json and following.json recognized by the Instagram registry
C6_Witness ==
    /\ validation # None
    /\ Obj.ddp_categories = Instagram_DDP_CATEGORIES
    /\ call_files = <<"followers.json", "following.json">>
    /\ call_ret = "True"
    /\ Obj.ddp_category.id = Some("json_en")

(* C7: for every non-empty registry, a fingerprint with an empty            *)
(* known_files list included, and every listing, infer_ddp_category ends    *)
(* with True or False and never raises.                                     *)
(* The division by len(known_files) raises for an empty list.               *)
C7_NeverRaises ==
    call_ret \in {"none", "True", "False"}

(* C8: the object validate returns has status 0 exactly when a fingerprint  *)
(* was matched, status 1 exactly when the archive was readable and no       *)
(* fingerprint cleared the threshold, status 2 exactly when the archive is  *)
(* a bad zip file, then with no category; the status is never -1.           *)
C8_StatusMatchesOutcome ==
    pc = "returned" =>
        LET status  == Obj.status_code.id
            cleared == \E i \in DOMAIN call_props :
                           call_props[i][2][1] >= 5 * call_props[i][2][2]
        IN  /\ status \in {0, 1, 2}
            /\ Obj.status_code = DictGet(Obj.status_codes_lookup, status)
            /\ (status = 0) <=> (Obj.ddp_category.id # None)
            /\ (status = 0) <=> (zfile.kind = "zip" /\ cleared)
            /\ (status = 1) <=> (zfile.kind = "zip" /\ ~cleared)
            /\ (status = 2) <=> (zfile.kind = "BadZipFile")
            /\ (status = 2) => (Obj.ddp_category = DefaultCategory)

\* a readable Twitter archive in which no fingerprint cleared the threshold
C8_Witness ==
    /\ pc = "returned"
    /\ platform = "twitter"
    /\ zfile.kind = "zip"
    /\ Len(call_files) > 0
    /\ Obj.status_code.id = 1
    /\ Obj.ddp_category.id = None

----------------------------------------------------------------------------
(* Vocabulary of the dict_denester properties *)

RECURSIVE LeafPaths(_, _)
\* the scalar leaves of a tree, each as <<path, value>>; a path is the
\* sequence of keys and indices (as text) from the root to the leaf
LeafPaths(node, path) ==
    IF node.kind = "leaf" THEN {<<path, node.value>>}
    ELSE IF node.kind = "dict"
    THEN UNION {LeafPaths(node.members[i][2], Append(path, node.members[i][1])) :
                   i \in DOMAIN node.members}
    ELSE UNION {LeafPaths(node.members[i], Append(path, str_int(i - 1))) :
                   i \in DOMAIN node.members}

RECURSIVE JoinPath(_)
\* the key under which a leaf at the given path is recorded
JoinPath(path) ==
    IF path = <<>> THEN <<>>
    ELSE IF Len(path) = 1 THEN path[1]
    ELSE path[1] \o <<Separator>> \o JoinPath(Tail(path))

RECURSIVE SameTree(_, _)
\* equality of JSON trees, the order of the keys of an object set aside
SameTree(a, b) ==
    /\ a.kind = b.kind
    /\ a.value = b.value
    /\ Len(a.members) = Len(b.members)
    /\ IF a.kind = "dict"
       THEN \A i \in DOMAIN a.members : \E j \in DOMAIN b.members :
                /\ a.members[i][1] = b.members[j][1]
                /\ SameTree(a.members[i][2], b.members[j][2])
       ELSE \A i \in DOMAIN a.members : SameTree(a.members[i], b.members[i])

(* C9: dict_denester produces exactly one entry per scalar leaf: as many    *)
(* entries as leaves, every leaf recorded with its value under the key      *)
(* spelling its path from the root, no two leaves under one key.            *)
(* Keys that contain the separator make two paths spell the same key.       *)
C9_OneEntryPerLeaf ==
    dpc = "done" =>
        LET leaves == LeafPaths(inp, <<>>)
        IN  /\ Len(new) = Cardinality(leaves)
            /\ \A lf \in leaves :
                   \E i \in DOMAIN new : new[i] = <<JoinPath(lf[1]), lf[2]>>
            /\ \A i, j \in DOMAIN new : i # j => new[i][1] # new[j][1]

(* C10: two different input trees never flatten to the same record (so      *)
(* re-nesting along the recorded paths can reconstruct the input), the      *)
(* order of keys set aside.                                                 *)
(* Different trees do share records.                                        *)
C10_RoundTrip ==
    dpc = "done" =>
        \A t \in TreesUpTo(MaxNodes) :
            Range(dict_denester(t)) = Range(new) => SameTree(t, inp)

----------------------------------------------------------------------------
(* Vocabulary of the flatten_nested_dict properties *)

RECURSIVE KindCount(_, _)
\* the number of nodes of a tree that are of one of the given kinds
KindCount(node, kinds) ==
    LET here == IF node.kind \in kinds THEN 1 ELSE 0
        child(i) == IF node.kind = "dict" THEN node.members[i][2] ELSE node.members[i]
        RECURSIVE below(_)
        below(i) == IF i = 0 THEN 0 ELSE KindCount(child(i), kinds) + below(i - 1)
    IN  here + below(Len(node.members))

\* the number of items of json_items whose object_type is one of the given
ItemCount(types) ==
    Cardinality({i \in DOMAIN json_items : json_items[i].object_type \in types})

ScalarTypes == {"str", "int", "bool", "NoneType"}

\* <<name, object_type, object_value>> of every item, in the order of the list
ItemSummary ==
    [i \in DOMAIN json_items |->
        <<json_items[i].name, json_items[i].object_type, json_items[i].object_value>>]

\* the string form of the scalars flattened, written out
StringForm(v) ==
    IF v = PyInt(IntOf(1)) THEN <<"1">>
    ELSE IF v = PyInt(IntOf(2)) THEN <<"2">>
    ELSE IF v = PyInt(IntOf(3)) THEN <<"3">>
    ELSE IF v = PyInt(<<2932897, 0>>)
    THEN <<"2", "5", "3", "4", "0", "2", "3", "0", "0", "8", "0", "0">>
    ELSE IF v = PyList(<<PyInt(<<0, 1>>)>>) THEN <<"[", "1", "]">>
    ELSE IF v = PyBool(TRUE) THEN <<"T", "r", "u", "e">>
    ELSE IF v = PyNone THEN <<"N", "o", "n", "e">>
    ELSE v[2]

\* the number of scalar leaves of the input with the value v
LeavesWith(v) == Cardinality({lf \in LeafPaths(inp, <<>>) : lf[2] = v})

(* C11 (as stated): flatten_nested_dict appends no item for dict or list    *)
(* nodes: every item of the returned list is a scalar's, and there are as   *)
(* many items as leaves.                                                    *)
C11_LeafEntriesOnly ==
    fpc = "done" =>
        /\ \A i \in DOMAIN json_items : json_items[i].object_type \in ScalarTypes
        /\ Len(json_items) = Cardinality(LeafPaths(inp, <<>>))

(* C11 (amended): flatten_nested_dict appends exactly one item for every    *)
(* node of the tree, dict and list nodes included, so the scalar items are  *)
(* as many as the leaves; for {"a": [1, {"b": "x"}]} it returns five items, *)
(* two of them the leaves' (a_0 with value 1, b with value x).  It is       *)
(* dict_denester that records leaf values only: for the same tree exactly   *)
(* a-0 -> 1 and a-1-b -> x.                                                 *)
C11_OneItemPerNode ==
    /\ fpc = "done" =>
        /\ Len(json_items) = KindCount(inp, {"dict", "list", "leaf"})
        /\ ItemCount({"dict"}) = KindCount(inp, {"dict"})
        /\ ItemCount({"list"}) = KindCount(inp, {"list"})
        /\ ItemCount(ScalarTypes) = Cardinality(LeafPaths(inp, <<>>))
        /\ inp = ExampleTree =>
               ItemSummary = << <<Toplevel, "dict", <<"a">>>>,
                                <<(<<"a">>), "list", <<"L", "i", "s", "t">>>>,
                                <<(<<"a", "_", "1">>), "dict", <<"b">>>>,
                                <<(<<"b">>), "str", <<"x">>>>,
                                <<(<<"a", "_", "0">>), "int", <<"1">>>> >>
    /\ dpc = "done" =>
        /\ \A i \in DOMAIN new : \E lf \in LeafPaths(inp, <<>>) : lf[2] = new[i][2]
        /\ inp = ExampleTree =>
               new = << <<(<<"a", "-", "0">>), PyInt(IntOf(1))>>,
                        <<(<<"a", "-", "1", "-", "b">>), PyStr(<<"x">>)>> >>

\* the example tree has been flattened both ways
C11_Witness ==
    /\ fpc = "done"
    /\ dpc = "done"
    /\ inp = ExampleTree
    /\ Len(json_items) = 5
    /\ Len(new) = 2

(* C12: in the list flatten_nested_dict returns, is_ip, is_time and is_url  *)
(* are booleans exactly on the items of string nodes and null on every      *)
(* other item (numbers, booleans, null, objects, arrays); the items carry   *)
(* the types of the nodes, and every scalar leaf has an item with its type  *)
(* and the string form of its value.                                        *)
C12_ClassifiedIffString ==
    fpc = "done" =>
        /\ \A i \in DOMAIN json_items :
               LET item == json_items[i]
               IN  IF item.object_type = "str"
                   THEN /\ item.is_ip \in {Some(TRUE), Some(FALSE)}
                        /\ item.is_time \in {Some(TRUE), Some(FALSE)}
                        /\ item.is_url \in {Some(TRUE), Some(FALSE)}
                   ELSE /\ item.is_ip = None
                        /\ item.is_time = None
                        /\ item.is_url = None
        /\ \A v \in FlatScalars :
               LeavesWith(v) =
                   Cardinality({i \in DOMAIN json_items :
                                   /\ json_items[i].object_type = v[1]
                                   /\ json_items[i].object_value = StringForm(v)})
        /\ ItemCount({"dict"}) = KindCount(inp, {"dict"})
        /\ ItemCount({"list"}) = KindCount(inp, {"list"})

\* a flattened document with a string leaf, another scalar and a container
C12_Witness ==
    /\ fpc = "done"
    /\ \E i, j, k \in DOMAIN json_items :
           /\ json_items[i].object_type = "str" /\ json_items[i].is_url = Some(TRUE)
           /\ json_items[j].object_type = "bool" /\ json_items[j].is_url = None
           /\ json_items[k].object_type = "dict" /\ json_items[k].is_url = None

----------------------------------------------------------------------------
(* Vocabulary of the find_items and find_all properties *)

RECURSIVE HasDashKey(_)
\* some key of an object of the tree contains the separator
HasDashKey(node) ==
    IF node.kind = "dict"
    THEN \E i \in DOMAIN node.members :
             InList(Separator, node.members[i][1]) \/ HasDashKey(node.members[i][2])
    ELSE \E i \in DOMAIN node.members : HasDashKey(node.members[i])

RECURSIVE Split(_)
\* the segments of a key: its parts between the separators
Split(key) ==
    IF ~InList(Separator, key) THEN <<key>>
    ELSE LET cut == CHOOSE i \in DOMAIN key :
                        key[i] = Separator /\ \A j \in 1..(i - 1) : key[j] # Separator
         IN  <<SubSeq(key, 1, cut - 1)>> \o Split(SubSeq(key, cut + 1, Len(key)))

\* the record searched was denested from the document inp
Denested == dpc = "done"

\* a search of a record (not of a value without items) has returned
SearchedBy(function) == qpc = function /\ dpc \in {"done", "given"}

\* the number of keys and indices that lead to entry i of the record: the
\* length of the path of its leaf in the document, or, for a record handed
\* over as it is, the number of segments of its key
EntryDepth(i) ==
    IF Denested
    THEN LET lf == CHOOSE lf \in LeafPaths(inp, <<>>) : JoinPath(lf[1]) = new[i][1]
         IN  Len(lf[1])
    ELSE Len(Split(new[i][1]))

\* the entries whose key the pattern of the search matches
PatternMatches == {i \in DOMAIN new : re_match(token, new[i][1])}

\* the first of the least nested entries among those
FirstShallowest(entries) ==
    CHOOSE i \in entries :
        \A j \in entries :
            EntryDepth(i) < EntryDepth(j) \/ (EntryDepth(i) = EntryDepth(j) /\ i <= j)

\* the token occurs, as it is written, inside one segment of entry i
LiteralSegmentMatch(i) ==
    LET segments == Split(new[i][1])
    IN  \E n \in DOMAIN segments : contains_literally(token, segments[n])

\* the elements of a list at the given positions, in the order of the list
RECURSIVE Selected(_, _, _)
Selected(lst, positions, i) ==
    IF i > Len(lst) THEN <<>>
    ELSE (IF i \in positions THEN <<lst[i][2]>> ELSE <<>>) \o Selected(lst, positions, i + 1)

\* a Python str
IsString(x) == \A i \in DOMAIN x : InList(x[i], CodePoints)

(* C13: on a record whose key segments do not contain the separator,        *)
(* find_items returns the string form of the value of the least nested      *)
(* entry its pattern matches, the first of them in the order of the record  *)
(* when several are least nested, and the empty string when none matches:   *)
(* "1" for matches at depths 4 and 2 holding 2 and 1, "2" for the record    *)
(* asd-asd-asd-asd-asd-asd: 1, asd-asd: 2, qwe: 3 searched for asd.         *)
C13_LeastNestedFirstWins ==
    (/\ SearchedBy("find_items")
     /\ re_compiles(token)
     /\ Denested => ~HasDashKey(inp))
    => /\ found = IF PatternMatches = {} THEN <<>>
                  ELSE StringForm(new[FirstShallowest(PatternMatches)][2])
       /\ (inp = DepthsTree /\ token = <<"a">>) => found = <<"1">>
       /\ (new = DocstringRecord /\ token = Asd) => found = <<"2">>

\* matches at depths 4 and 2: the value at depth 2 has been returned
C13_Witness ==
    /\ SearchedBy("find_items")
    /\ inp = DepthsTree
    /\ token = <<"a">>
    /\ Cardinality(PatternMatches) = 2
    /\ found = <<"1">>

(* C14: find_items ranks the matching entries by the number of keys and     *)
(* indices that lead to them from the root of the document, also when a key *)
(* contains "-": the value returned is that of a matching leaf than which   *)
(* no matching leaf is reached by fewer keys and indices.                   *)
(* The code counts the "-" of the joined key.                               *)
C14_DepthIsSegmentCount ==
    (/\ SearchedBy("find_items")
     /\ Denested
     /\ re_compiles(token))
    => LET matching == {lf \in LeafPaths(inp, <<>>) : re_match(token, JoinPath(lf[1]))}
       IN  IF matching = {} THEN found = <<>>
           ELSE \E lf \in matching :
                    /\ found = StringForm(lf[2])
                    /\ \A other \in matching : Len(lf[1]) <= Len(other[1])

(* C15: an entry matches the token of find_items and find_all exactly when  *)
(* the token occurs literally inside one of the segments of its path: no    *)
(* character of the token is read as pattern syntax and no match spans two  *)
(* segments.  (Stated for the records whose segments are the parts of the   *)
(* key between the separators.)                                             *)
(* The token is spliced into a regular expression that is matched against   *)
(* the joined key.                                                          *)
C15_LiteralSegmentMatching ==
    (Denested => ~HasDashKey(inp))
    => /\ SearchedBy("find_all") =>
              found = Selected(new, {i \in DOMAIN new : LiteralSegmentMatch(i)}, 1)
       /\ SearchedBy("find_items") =>
              (found # <<>> <=> \E i \in DOMAIN new : LiteralSegmentMatch(i))

(* C16: find_items never raises: it returns a string for every record and   *)
(* token, also for a value that is no dict and for a token that is no       *)
(* pattern, and the empty string whenever no key is matched.                *)
C16_FindItemsNeverRaises ==
    /\ qpc # "raised"
    /\ qpc = "find_items" =>
           /\ IsString(found)
           /\ (dpc = "no dict" \/ ~re_compiles(token) \/ PatternMatches = {})
                  => found = <<>>

\* a token that is no pattern, searched for in a record with entries
C16_Witness ==
    /\ qpc = "find_items"
    /\ Denested
    /\ Len(new) > 0
    /\ token = <<"(">>
    /\ found = <<>>

----------------------------------------------------------------------------
(* Vocabulary of the timestamp properties.  The ints are written as         *)
(* <<days, seconds>>: 946684800 = 10957 days, 2208988800 = 25567 days,      *)
(* 253402300800 = 2932897 days.                                             *)

\* the call returned (raised nothing)
CallReturned == t_ret.raised = NoException

\* the values tried that convert to an integer from 946684800 to 2208988800
EpochValues == {PyInt(<<10957, 0>>), PyInt(<<25567, 0>>), PyStr(Year2000Text)}

\* the values tried that are ISO 8601 timestamps, or dates when date_only
IsoValues(date_only) == IF date_only THEN {PyStr(DateText)} ELSE {PyStr(IsoText)}

\* what the function called accepts of the values tried
Accepted ==
    IF t_call = "is_epoch" THEN EpochValues ELSE IsoValues(t_args[3])

\* min(a, b)
Min(a, b) == IF a <= b THEN a ELSE b

\* every one of the first n elements of the list is accepted
FirstAccepted(lst, n) == \A i \in 1..Min(Len(lst), n) : lst[i] \in Accepted

\* a list without its nulls
RECURSIVE NonNull(_)
NonNull(lst) ==
    IF lst = <<>> THEN <<>>
    ELSE (IF Head(lst) = PyNone THEN <<>> ELSE <<Head(lst)>>) \o NonNull(Tail(lst))

\* the timestamps tried that cannot be converted
Unconvertible ==
    {PyStr(<<"a", "b", "c">>), PyStr(<<>>), PyNone, PyList(<<PyInt(<<0, 1>>)>>),
     PyInt(<<2932897, 0>>)}

\* the ISO 8601 strings of some of the timestamps tried
IsoOf(x) ==
    IF x = PyInt(<<0, 0>>)
    THEN <<"1", "9", "7", "0", "-", "0", "1", "-", "0", "1", "T",
           "0", "0", ":", "0", "0", ":", "0", "0", "+", "0", "0", ":", "0", "0">>
    ELSE IF x = PyInt(<<10956, 86399>>)
    THEN <<"1", "9", "9", "9", "-", "1", "2", "-", "3", "1", "T",
           "2", "3", ":", "5", "9", ":", "5", "9", "+", "0", "0", ":", "0", "0">>
    ELSE <<"2", "0", "0", "0", "-", "0", "1", "-", "0", "1", "T",
           "0", "0", ":", "0", "0", ":", "0", "0", "+", "0", "0", ":", "0", "0">>

\* the timestamps whose ISO 8601 string IsoOf gives
IsoKnown ==
    {PyInt(<<0, 0>>), PyInt(<<10956, 86399>>), PyInt(<<10957, 0>>), PyStr(Year2000Text)}

\* the call returned the ISO 8601 string of its argument
ReturnedIso ==
    /\ CallReturned
    /\ t_ret.ret[1] = "str"
    /\ match_iso8601_full(t_ret.ret[2])
    /\ t_args[1] \in IsoKnown => t_ret.ret[2] = IsoOf(t_args[1])

(* C17: is_epoch(values, n) never raises and returns True exactly when each *)
(* of the first min(len(values), n) values converts to an integer from      *)
(* 946684800 to 2208988800, both included: 946684799, 2208988801, a date    *)
(* string and null in the sample make it False.                             *)
C17_EpochWindowInclusive ==
    t_call = "is_epoch" =>
        /\ CallReturned
        /\ t_ret.ret = PyBool(/\ t_args[1][1] = "list"
                              /\ FirstAccepted(t_args[1][2], t_args[2]))

\* both ends of the window sampled and accepted
C17_Witness ==
    /\ t_call = "is_epoch"
    /\ t_args = <<PyList(<<PyInt(<<10957, 0>>), PyInt(<<25567, 0>>)>>), 2>>
    /\ t_ret.ret = PyBool(TRUE)

(* C18 (as stated): is_epoch and is_isoformat judge the first sample_size   *)
(* non-null values of the list: nulls are skipped and do not count.         *)
C18_NullsSkipped ==
    (t_call \in {"is_epoch", "is_isoformat"} /\ t_args[1][1] = "list") =>
        /\ CallReturned
        /\ t_ret.ret = PyBool(FirstAccepted(NonNull(t_args[1][2]), t_args[2]))

(* C18 (amended): is_epoch and is_isoformat judge the first sample_size     *)
(* values of the list, nulls included: a null among them makes the result   *)
(* False, and the values after them never change the result.                *)
C18_FirstValuesOnly ==
    (t_call \in {"is_epoch", "is_isoformat"} /\ t_args[1][1] = "list") =>
        /\ CallReturned
        /\ t_ret.ret = PyBool(FirstAccepted(t_args[1][2], t_args[2]))
        /\ (\E i \in 1..Min(Len(t_args[1][2]), t_args[2]) : t_args[1][2][i] = PyNone)
               => t_ret.ret = PyBool(FALSE)

\* a date sampled and a null after the sample: detected
C18_Witness ==
    /\ t_call = "is_isoformat"
    /\ t_args = <<PyList(<<PyStr(DateText), PyNone>>), 1, TRUE>>
    /\ t_ret.ret = PyBool(TRUE)

(* C19 (as stated): helpers.epoch_to_iso never raises and, when the         *)
(* conversion fails, returns its argument unchanged, same value, same type. *)
C19_ReturnsInputUnchanged ==
    t_call = "helpers.epoch_to_iso" =>
        /\ CallReturned
        /\ t_args[1] \in Unconvertible => t_ret.ret = t_args[1]

(* C19 (amended): helpers.epoch_to_iso never raises and always returns a    *)
(* str: the ISO 8601 string when the conversion succeeds, and str() of its  *)
(* argument when it fails (the argument itself only if that is a str: null  *)
(* gives "None", [1] gives "[1]", 253402300800 gives "253402300800").       *)
C19_ReturnsStrOfInput ==
    t_call = "helpers.epoch_to_iso" =>
        /\ CallReturned
        /\ IF t_args[1] \in Unconvertible
           THEN t_ret.ret = PyStr(StringForm(t_args[1]))
           ELSE ReturnedIso

\* null: the str "None" came back
C19_Witness ==
    /\ t_call = "helpers.epoch_to_iso"
    /\ t_args = <<PyNone>>
    /\ t_ret = Returns(PyStr(<<"N", "o", "n", "e">>))

(* C20 (as stated): stringparse.epoch_to_iso returns the ISO 8601 string or *)
(* raises CannotConvertEpochTimestamp, nothing else, and the exception      *)
(* carries the raw value that could not be converted.                       *)
C20_ErrorCarriesRawValue ==
    t_call = "stringparse.epoch_to_iso" =>
        \/ ReturnedIso
        \/ /\ t_ret.raised.type = "CannotConvertEpochTimestamp"
           /\ \E i \in DOMAIN t_ret.raised.args : t_ret.raised.args[i] = t_args[1]

(* C20 (amended): stringparse.epoch_to_iso returns the ISO 8601 string or   *)
(* raises CannotConvertEpochTimestamp, nothing else; the exception carries  *)
(* the fixed message "Cannot convert epoch timestamp" alone, with the       *)
(* exception of the conversion as its cause, not the raw value.             *)
C20_TypedErrorOnly ==
    t_call = "stringparse.epoch_to_iso" =>
        IF t_args[1] \in Unconvertible
        THEN /\ t_ret.raised.type = "CannotConvertEpochTimestamp"
             /\ t_ret.raised.args = <<PyStr(CannotConvertMessage)>>
             /\ t_ret.raised.cause \in {"ValueError", "TypeError", "OverflowError", "OSError"}
        ELSE ReturnedIso

\* a string that is no number: the typed error, caused by ValueError
C20_Witness ==
    /\ t_call = "stringparse.epoch_to_iso"
    /\ t_args = <<PyStr(<<"a", "b", "c">>)>>
    /\ t_ret.raised = Exception("CannotConvertEpochTimestamp",
                                <<PyStr(CannotConvertMessage)>>, "ValueError")

----------------------------------------------------------------------------
(* Vocabulary of the properties of the two denesters *)

RECURSIVE PlainKeys(_)
\* no key of the tree contains "-" or "_"
PlainKeys(node) ==
    IF node.kind = "dict"
    THEN \A i \in DOMAIN node.members :
             /\ \A c \in Range(node.members[i][1]) : c \notin {"-", "_"}
             /\ PlainKeys(node.members[i][2])
    ELSE \A i \in DOMAIN node.members : PlainKeys(node.members[i])

\* a key with every "-" replaced by "_"
Underscored(key) == [i \in DOMAIN key |-> IF key[i] = "-" THEN "_" ELSE key[i]]

\* both denesters have returned for the current item
BothDone == dpc = "done" /\ spc = "done"

\* the two dicts returned agree up to the separator, and hold the leaves of
\* the current item only
TwinAgree ==
    PlainKeys(inp) =>
        /\ Len(new) = Len(scan_new)
        /\ Len(new) = Cardinality(LeafPaths(inp, <<>>))
        /\ \A i \in DOMAIN new :
               /\ new[i][2] = scan_new[i][2]
               /\ Underscored(new[i][1]) = scan_new[i][1]

(* C28: for every tree whose keys contain neither "-" nor "_",              *)
(* helpers.dict_denester and scanfiles.dict_denester return dicts with the  *)
(* same number of entries, the same values in the same order and keys that  *)
(* are equal once "-" is replaced by "_"; the calls leave their input as it *)
(* was, and the dicts hold nothing of the item handed over before.          *)
C28_SameUpToSeparator ==
    [][(BothDone' /\ ~BothDone) => (inp' = inp /\ TwinAgree')]_vars

\* the second item, a dict in a list under keys out of order, denested by both
C28_Witness ==
    /\ BothDone
    /\ item_no = 2
    /\ inp = UnsortedTree
    /\ new = <<<<<<"b", "-", "0", "-", "a">>, <<"int", "1">>>>, <<<<"a">>, <<"str", "x">>>>>>
    /\ scan_new = <<<<<<"b", "_", "0", "_", "a">>, <<"int", "1">>>>, <<<<"a">>, <<"str", "x">>>>>>

----------------------------------------------------------------------------
(* Vocabulary of the order and the identifiers of flatten_nested_dict *)

\* the members of a node as <<name of the call, node>>, in the order of the
\* calls made for them
CalledMembers(node, name) ==
    IF node.kind = "dict"
    THEN py_sorted(node.members)
    ELSE [i \in DOMAIN node.members |->
             <<name \o <<"_">> \o str_int(i - 1), node.members[i]>>]

RECURSIVE PostOrder(_, _)
\* <<name, object_type>> of the nodes of a tree, every node after the nodes
\* below it: the order in which the calls append
PostOrder(node, name) ==
    LET members == CalledMembers(node, name)
        RECURSIVE below(_)
        below(i) == IF i > Len(members) THEN <<>>
                    ELSE PostOrder(members[i][2], members[i][1]) \o below(i + 1)
    IN  below(1) \o << <<name, type_name(node)>> >>

\* a sequence from its last element to its first
Backwards(seq) == [i \in DOMAIN seq |-> seq[Len(seq) + 1 - i]]

\* <<name, object_type>> of every item, in the order of the list
NamesAndTypes ==
    [i \in DOMAIN json_items |-> <<json_items[i].name, json_items[i].object_type>>]

RECURSIVE NodesAtDepth(_, _)
\* the number of nodes of a tree at the given depth (the root is at depth 0)
NodesAtDepth(node, depth) ==
    IF depth = 0 THEN 1
    ELSE LET child(i) == IF node.kind = "dict" THEN node.members[i][2] ELSE node.members[i]
             RECURSIVE below(_)
             below(i) == IF i = 0 THEN 0
                         ELSE NodesAtDepth(child(i), depth - 1) + below(i - 1)
         IN  below(Len(node.members))

(* C23 (as stated): the reversals of the recursive levels compound: for a   *)
(* tree with nested nodes the list flatten_nested_dict returns is not the   *)
(* post-order append sequence reversed once.                                *)
C23_ReversalsCompound ==
    (fpc = "done" /\ Len(json_items) > 2) =>
        NamesAndTypes # Backwards(PostOrder(inp, Toplevel))

(* C23 (amended): every level computes a reversed copy, but the copies of   *)
(* the recursive calls are dropped and the shared list is never reversed:   *)
(* the list the top-level call returns is exactly the post-order append     *)
(* sequence (members before their parent, keys sorted) reversed once, the   *)
(* root's item first.                                                       *)
C23_ReversedOnce ==
    fpc = "done" =>
        /\ NamesAndTypes = Backwards(PostOrder(inp, Toplevel))
        /\ json_items[1].name = Toplevel
        /\ inp = ExampleTree =>
               NamesAndTypes = << <<Toplevel, "dict">>, <<(<<"a">>), "list">>,
                                  <<(<<"a", "_", "1">>), "dict">>, <<(<<"b">>), "str">>,
                                  <<(<<"a", "_", "0">>), "int">> >>

\* a flattened tree of three levels
C23_Witness ==
    /\ fpc = "done"
    /\ \E i \in DOMAIN json_items : Len(json_items[i].parent_id) = 3
    /\ Len(json_items) >= 3

(* C29: in the list flatten_nested_dict returns every node of the tree has  *)
(* exactly one item, the object_ids are pairwise distinct, and parent_id is *)
(* the path from the root: the parent_id of the parent's item followed by   *)
(* "/" and the item's own object_id, so that it has depth + 1 identifiers   *)
(* (each after a "/"), the root's being its own object_id alone.            *)
C29_ParentIdIsPath ==
    fpc = "done" =>
        /\ Len(json_items) = KindCount(inp, {"dict", "list", "leaf"})
        /\ \A i, j \in DOMAIN json_items :
               i # j => json_items[i].object_id # json_items[j].object_id
        /\ \A i \in DOMAIN json_items :
               LET item == json_items[i]
                   n    == Len(item.parent_id)
               IN  /\ n >= 1
                   /\ item.parent_id[n] = item.object_id
                   /\ n = 1 => item.name = Toplevel
                   /\ n > 1 =>
                          \E j \in DOMAIN json_items :
                              /\ json_items[j].parent_id = SubSeq(item.parent_id, 1, n - 1)
                              /\ json_items[j].object_type \in {"dict", "list"}
        /\ \A depth \in 0..Len(json_items) :
               Cardinality({i \in DOMAIN json_items :
                               Len(json_items[i].parent_id) = depth + 1})
                   = NodesAtDepth(inp, depth)

\* the example tree flattened: its deepest leaf has a path of four
C29_Witness ==
    /\ fpc = "done"
    /\ inp = ExampleTree
    /\ \E i \in DOMAIN json_items :
           /\ json_items[i].name = <<"b">>
           /\ Len(json_items[i].parent_id) = 4

----------------------------------------------------------------------------
(* Vocabulary of the extract_file_from_zip property *)

\* the base names of the file names tried, written out
BaseNameOf(filename) ==
    IF filename \in {<<"like.js">>, <<"data", "/", "like.js">>, <<"like.js", "/">>,
                     <<"x", "/", "like.js">>}
    THEN "like.js" ELSE "tweet.js"

\* the positions of the entries of the archive with the base name asked for
EntriesNamed(archive, name) ==
    {i \in DOMAIN archive.entries : BaseNameOf(archive.entries[i].filename) = name}

\* the least of a non-empty set of positions
First(positions) == CHOOSE i \in positions : \A j \in positions : i <= j

(* C22: extract_file_from_zip never raises and always returns a buffer: the *)
(* bytes of the first entry, in the order of the listing, whose base name   *)
(* is file_to_extract; the empty buffer when the archive cannot be opened,  *)
(* when no entry has that base name, or when that entry cannot be read.     *)
C22_AlwaysABuffer ==
    t_call = "extract_file_from_zip" =>
        LET archive == t_args[1]
            named   == EntriesNamed(archive, t_args[2])
        IN  /\ CallReturned
            /\ t_ret.ret[1] = "BytesIO"
            /\ IF archive.kind # "zip" \/ named = {}
               THEN t_ret.ret = BytesIO(<<>>)
               ELSE IF archive.entries[First(named)].read # "ok"
               THEN t_ret.ret = BytesIO(<<>>)
               ELSE t_ret.ret = BytesIO(archive.entries[First(named)].data)

\* two entries named like.js in different directories: the first one's bytes
C22_Witness ==
    /\ t_call = "extract_file_from_zip"
    /\ t_args[2] = "like.js"
    /\ t_args[1].kind = "zip"
    /\ Len(t_args[1].entries) = 3
    /\ t_args[1].entries[1].filename = <<"data", "/", "tweet.js">>
    /\ t_args[1].entries[2].filename = <<"data", "/", "like.js">>
    /\ t_args[1].entries[3].filename = <<"like.js">>
    /\ t_ret = Returns(BytesIO(<<2>>))

----------------------------------------------------------------------------
(* Vocabulary of the split_dataframe property *)

RECURSIVE RowsOf(_)
\* the rows of a list of tables, one table after the other
RowsOf(tables) == IF tables = <<>> THEN <<>> ELSE Head(tables).rows \o RowsOf(Tail(tables))

(* C30: split_dataframe(df, row_count) with row_count >= 1 partitions the   *)
(* table: the rows of the chunks, chunk after chunk, are the rows of df in  *)
(* their order; every chunk has from 1 to row_count rows and only the last  *)
(* may have fewer than row_count; an empty table gives no chunk.            *)
C30_ChunksPartitionRows ==
    (t_call = "split_dataframe" /\ t_args[2] >= 1) =>
        LET df        == t_args[1]
            row_count == t_args[2]
            chunks    == t_ret.ret[2]
        IN  /\ CallReturned
            /\ RowsOf(chunks) = df.rows
            /\ \A k \in DOMAIN chunks :
                   /\ Len(chunks[k].rows) >= 1
                   /\ Len(chunks[k].rows) <= row_count
                   /\ k < Len(chunks) => Len(chunks[k].rows) = row_count
            /\ df.rows = <<>> => chunks = <<>>

\* three rows in chunks of two: a full chunk and a last one of one row
C30_Witness ==
    /\ t_call = "split_dataframe"
    /\ t_args = <<DataFrame(<<0, 1, 2>>, <<"r", "s", "r">>), 2>>
    /\ t_ret = Returns(PyList(<<DataFrame(<<0, 1>>, <<"r", "s">>),
                                DataFrame(<<0>>, <<"r">>)>>))

----------------------------------------------------------------------------
(* Vocabulary of the convert_datetime_str property *)

\* every one of the first ten values of the list is one of the given
FirstTenIn(lst, values) == \A i \in 1..Min(Len(lst), 10) : lst[i] \in values

\* the format detected on the first ten values, in the order full ISO 8601
\* timestamp, ISO 8601 date, epoch seconds
Detected(lst) ==
    IF FirstTenIn(lst, IsoValues(FALSE)) THEN "iso"
    ELSE IF FirstTenIn(lst, IsoValues(TRUE)) THEN "iso date"
    ELSE IF FirstTenIn(lst, EpochValues) THEN "epoch"
    ELSE "none"

\* the keyword arguments of the conversion of each format
KeywordsOf(format) ==
    IF format \in {"iso", "iso date"} THEN ""
    ELSE IF format = "epoch" THEN "unit=s"
    ELSE "infer_datetime_format, dayfirst"

(* C24: convert_datetime_str never raises; for a list it converts by the    *)
(* format detected on the first 10 values, asked in the order ISO 8601 full *)
(* timestamp, ISO 8601 date, epoch seconds, and by the day-first fallback   *)
(* only when none of the three is detected; it returns None when the        *)
(* conversion chosen fails.                                                 *)
C24_FixedOrderThenFallback ==
    t_call = "convert_datetime_str" =>
        /\ CallReturned
        /\ t_args[1][1] = "list" =>
               IF t_args[2] = "ok"
               THEN t_ret.ret = <<"DatetimeIndex",
                                  <<KeywordsOf(Detected(t_args[1][2])), t_args[1]>>>>
               ELSE t_ret.ret = PyNone
        /\ (t_ret.ret # PyNone /\ t_ret.ret[2][1] = "infer_datetime_format, dayfirst")
               => /\ t_args[1][1] = "list"
                  /\ Detected(t_args[1][2]) = "none"

\* ten epoch values and a date after them: converted as epoch seconds
C24_Witness ==
    /\ t_call = "convert_datetime_str"
    /\ t_args = <<PyList(TenOf(PyInt(<<10957, 0>>)) \o <<PyStr(DateText)>>), "ok">>
    /\ t_ret.ret[2][1] = "unit=s"

----------------------------------------------------------------------------
(* Vocabulary of the property of concurrent validate calls *)

\* what the call t ended with: how it ended, the id of the status and the id
\* of the category of its validation object
EndOf(t) ==
    IF threads[t].pc = "raised" THEN <<"raised", -1, None>>
    ELSE <<"returned", status_code_of(heap, threads[t].validation).id,
           ddp_category_of(heap, threads[t].validation).id>>

\* what validate ends with on the archive when nothing else runs
AloneEndOf(zf) ==
    LET r == Instagram_validate(zf)
    IN  IF r.outcome = "raised" THEN <<"raised", -1, None>>
        ELSE <<"returned", r.validation.status_code.id, r.validation.ddp_category.id>>

(* C21: when two validate calls, each with its own ValidateInput over the   *)
(* shared registry and the shared default objects, run with their           *)
(* statements interleaved in any order, each ends with the status and the   *)
(* category it ends with when run alone, and the registry and the default   *)
(* objects are never changed.                                               *)
C21_CallsIndependent ==
    threads # <<>> =>
        /\ heap = ModuleHeap
        /\ \A t \in DOMAIN threads :
               threads[t].pc \in {"returned", "raised"} => EndOf(t) = AloneEndOf(threads[t].zf)

\* one call has found a category while the other, on an archive without a
\* known file, has ended with status 1
C21_Witness ==
    /\ threads # <<>>
    /\ threads[1].pc = "returned"
    /\ threads[2].pc = "returned"
    /\ EndOf(1)[2] = 0
    /\ EndOf(2)[2] = 1
    /\ threads[2].zf.namelist # <<>>

----------------------------------------------------------------------------
(* Vocabulary of the properties of the donation flow *)

FileInput == "PropsUIPromptFileInput"

ConsentForm == "PropsUIPromptConsentForm"

\* extraction returns no table for the file and the file is no package of
\* the platform: not a readable zip, or no fingerprint recognized
Unusable(platform_name, file) ==
    LET called == extraction_fun(platform_name, file)
    IN  /\ called.raised = NoException
        /\ called.ret[2] = <<>>
        /\ \/ file.zf.kind = "BadZipFile"
           \/ called.ret[1].ddp_category.id = None

\* the donation page rendered last follows an answered donation page
PageAfterPage == ui.before # None

DonatesPlatformData == ui'.donated # ui.donated

\* C26: a CommandSystemDonate whose key is a platform name is yielded only
\* when the donation page rendered last is the consent form of that platform
\* and was answered with PayloadJSON, it carries the value of that answer,
\* no earlier donation has the same key, and no donation is ever held under
\* the name of a platform whose file prompt or consent prompt was skipped.
C26_DonatesOnlyOnConsent ==
    [][/\ DonatesPlatformData =>
            LET donation == ui'.command[1]
            IN  /\ ui'.donated = Append(ui.donated,
                        [key |-> donation.key, json_string |-> donation.json_string])
                /\ ui.page # None
                /\ ui.page[1].body.prompt = ConsentForm
                /\ ui.page[1].platform = donation.key
                /\ ui.answer = Some(PayloadJSON(donation.json_string))
                /\ \A i \in DOMAIN ui.donated : ui.donated[i].key # donation.key
       /\ \A i \in DOMAIN ui'.donated : ui'.donated[i].key \notin ui'.skipped
      ]_vars

\* two platforms' data was donated with different values after a third
\* platform was skipped
C26_Witness ==
    /\ ui # <<>>
    /\ Len(ui.donated) = 2
    /\ ui.donated[1].json_string # ui.donated[2].json_string
    /\ ui.skipped # {}
    /\ gen.pc = "returned"

\* the progress shown on the donation page rendered last, 0 before any
ProgressShown == IF ui.page = None THEN <<0, 1>> ELSE ui.page[1].progress

\* step 2 of the last platform
LastConsentStep ==
    /\ gen.index = Len(platforms)
    /\ gen.pc \in {"log_consent", "consent", "log_donated", "donate", "log_skipped_consent"}

\* process has returned after yielding one end page, its last command
EndedWithEndPage ==
    /\ gen.pc = "returned"
    /\ ui.end_pages = 1
    /\ ui.command = Some(render_end_page)

\* C27: a run in which the user stops submitting files terminates: the
\* platforms are taken in the order of the list Twitter, Instagram, Facebook,
\* TikTok, one after the other and never an earlier one again, process
\* returns after yielding the end page once, as its last command, the
\* progress shown never decreases, and it is 100 at the consent step of the
\* last platform.
C27_TerminatesWithEndPage ==
    /\ platforms = <<"Twitter", "Instagram", "Facebook", "TikTok">>
    /\ [][/\ gen'.index \in {gen.index, gen.index + 1}
          /\ ProgressShown[1] * ProgressShown'[2] <= ProgressShown'[1] * ProgressShown[2]
         ]_vars
    /\ [](LastConsentStep => gen.progress[1] = 100 * gen.progress[2])
    /\ <>EndedWithEndPage

====
